---- MODULE Spec2Model ----
(***************************************************************************)
(* HCA decoder (WJQSERVER/hca): the decode entry points, the header        *)
(* parser, the frame loop with loop expansion, the frame checks (CRC-16,   *)
(* sync word) and the WAVE header writer, as a state machine.              *)
(*                                                                         *)
(* The repository holds the decode path in two forms that share the        *)
(* header chunk format and the frame loop:                                 *)
(*   "Decode"       - Hca.Decode of src/unnamed/part_001 (errors as        *)
(*                    values, io.ReadFull, header parser of the same file) *)
(*   "decodeBuffer" - Hca.decodeBuffer of src/unnamed/part_002 (bool       *)
(*                    results over endibuf; the same flow is               *)
(*                    neoDecodeBuffer of src/decoder.go and decodeBuffer   *)
(*                    of src/unnamed/part_003), with the bool header       *)
(*                    parser of src/hca_header.go:308-444.                 *)
(* The variable api says which one a run executes.                         *)
(***************************************************************************)
EXTENDS Integers, Sequences, FiniteSets, TLC

\* ------------------------------------------------------------------ bounds
\* Largest blockCount of a generated stream.
MaxBlocks == 3
\* Largest forced loop count (Hca.Loop) of a run.
MaxLoop == 2
\* Longest comment of a generated stream.
MaxComm == 2

\* --------------------------------------------------------- program constants
sigMask == 2139062143
sigHCA == 1212367104
sigFMT == 1718449152
sigCOMP == 1668246896
sigDEC == 1684366080
sigVBR == 1986163200
sigATH == 1635018752
sigLOOP == 1819242352
sigCIPH == 1667854440
sigRVA == 1920360704
sigCOMM == 1668246893

ModeFloat == 0
Mode8Bit == 8
Mode16Bit == 16
Mode24Bit == 24
Mode32Bit == 32

\* uint16 wrap-around of Go's unsigned arithmetic (checkSum's res << 8).
\* The other uint32 quantities of the model stay far below 2^31 within the
\* bounds.
U16(x) == x % 65536

\* A uint32 that can pass 2^31 (compR07, compR09) is kept as the pair
\* <<high 16 bits, low 16 bits>>; u32 takes a value below 2^31.
u32(n) == <<n \div 65536, n % 65536>>

\* uint32 addition and subtraction: the carry and the borrow leave at bit 32.
u32Add(p, q) ==
    LET lo == p[2] + q[2]
    IN  <<(p[1] + q[1] + lo \div 65536) % 65536, lo % 65536>>

u32Sub(p, q) ==
    LET lo == p[2] - q[2]
        hi == p[1] - q[1] - (IF lo < 0 THEN 1 ELSE 0)
    IN  <<(hi + 65536) % 65536, (lo + 65536) % 65536>>

\* ------------------------------------------------------------- bit helpers
RECURSIVE BitXor(_, _)
BitXor(a, b) ==
    IF a = 0 THEN b
    ELSE IF b = 0 THEN a
    ELSE ((a + b) % 2) + 2 * BitXor(a \div 2, b \div 2)

RECURSIVE BitAnd(_, _)
BitAnd(a, b) ==
    IF a = 0 \/ b = 0 THEN 0
    ELSE ((a % 2) * (b % 2)) + 2 * BitAnd(a \div 2, b \div 2)

\* A chunk signature is held as its four stream bytes; readData decodes them
\* big-endian into a uint32 and every comparison is made on sig & sigMask,
\* that is on each byte & 0x7F.
\* (a signature with a high bit set does not fit TLC's integers, so the mask
\* is applied bytewise before the bytes are joined).
BE32(b) == ((b[1] * 256 + b[2]) * 256 + b[3]) * 256 + b[4]

MaskByte(i) == (sigMask \div (256 ^ (4 - i))) % 256

Masked(sig) == BE32([i \in 1..4 |-> BitAnd(sig[i], MaskByte(i))])

\* ------------------------------------------------------------------ CRC-16
\* The 256-entry table v of checkSum.
crcTable ==
  <<
    0, 32773, 32783, 10, 32795, 30, 20, 32785, 32819, 54, 60, 32825, 40, 32813, 32807, 34,
    32867, 102, 108, 32873, 120, 32893, 32887, 114, 80, 32853, 32863, 90, 32843, 78, 68, 32833,
    32963, 198, 204, 32969, 216, 32989, 32983, 210, 240, 33013, 33023, 250, 33003, 238, 228, 32993,
    160, 32933, 32943, 170, 32955, 190, 180, 32945, 32915, 150, 156, 32921, 136, 32909, 32903, 130,
    33155, 390, 396, 33161, 408, 33181, 33175, 402, 432, 33205, 33215, 442, 33195, 430, 420, 33185,
    480, 33253, 33263, 490, 33275, 510, 500, 33265, 33235, 470, 476, 33241, 456, 33229, 33223, 450,
    320, 33093, 33103, 330, 33115, 350, 340, 33105, 33139, 374, 380, 33145, 360, 33133, 33127, 354,
    33059, 294, 300, 33065, 312, 33085, 33079, 306, 272, 33045, 33055, 282, 33035, 270, 260, 33025,
    33539, 774, 780, 33545, 792, 33565, 33559, 786, 816, 33589, 33599, 826, 33579, 814, 804, 33569,
    864, 33637, 33647, 874, 33659, 894, 884, 33649, 33619, 854, 860, 33625, 840, 33613, 33607, 834,
    960, 33733, 33743, 970, 33755, 990, 980, 33745, 33779, 1014, 1020, 33785, 1000, 33773, 33767, 994,
    33699, 934, 940, 33705, 952, 33725, 33719, 946, 912, 33685, 33695, 922, 33675, 910, 900, 33665,
    640, 33413, 33423, 650, 33435, 670, 660, 33425, 33459, 694, 700, 33465, 680, 33453, 33447, 674,
    33507, 742, 748, 33513, 760, 33533, 33527, 754, 720, 33493, 33503, 730, 33483, 718, 708, 33473,
    33347, 582, 588, 33353, 600, 33373, 33367, 594, 624, 33397, 33407, 634, 33387, 622, 612, 33377,
    544, 33317, 33327, 554, 33339, 574, 564, 33329, 33299, 534, 540, 33305, 520, 33293, 33287, 514
  >>

\* A loop body that takes the table index from the low byte of res.
crcStepLowByte(res, byte) ==
    BitXor(U16(res * 256), crcTable[BitXor(res % 256, byte) + 1])

\* One step of checkSum's loop: res = (res << 8) ^ v[byte(res>>8) ^ data[i]].
crcStep(res, byte) ==
    BitXor(U16(res * 256), crcTable[BitXor((res \div 256) % 256, byte) + 1])

\* The for statement of checkSum from index i on, res being the value the
\* turn before has left.
checkSumFrom(data, i, res) ==
    LET loop[k \in Nat, r \in Nat] ==
            IF k > Len(data) THEN r
            ELSE loop[k + 1, crcStep(r, data[k])]
    IN  loop[i, res]

checkSum(data, sum) == checkSumFrom(data, 1, sum)

\* ------------------------------------------------------------ header parser
\* The stream's header is a sequence of chunks, each with its four signature
\* bytes (sig) and the fields its reader decodes.  A parse state s holds the
\* Hca fields (h), the index of the chunk whose signature was read last (pos),
\* that signature (sig) and the error ("" while there is none).

\* The Hca struct as NewDecoder leaves it: Volume 1.0, every parsed field
\* zero.
NewDecoder ==
    [Volume |-> 1, version |-> 0, dataOffset |-> 0, channelCount |-> 0, samplingRate |-> 0,
     blockCount |-> 0, fmtR01 |-> 0, fmtR02 |-> 0, blockSize |-> 0,
     compR01 |-> 0, compR02 |-> 0, compR03 |-> 0, compR04 |-> 0,
     compR05 |-> 0, compR06 |-> 0, compR07 |-> <<0, 0>>, compR08 |-> 0,
     compR09 |-> <<0, 0>>, vbrR01 |-> 0, vbrR02 |-> 0, athType |-> 0,
     loopStart |-> 0, loopEnd |-> 0, loopR01 |-> 0, loopR02 |-> 0,
     loopFlg |-> FALSE, ciphType |-> 0, rvaVolume |-> 0, commLen |-> 0,
     commComment |-> <<>>, decoder |-> 0]

Fail(s, msg) == [s EXCEPT !.err = msg]

\* readData(r, &sig) of part_001: the next four bytes, or an error at the end
\* of the stream (sig keeps its value).
readSig(s, chunks) ==
    IF s.pos + 1 <= Len(chunks)
    THEN [s EXCEPT !.pos = s.pos + 1, !.sig = chunks[s.pos + 1].sig]
    ELSE [s EXCEPT !.pos = Len(chunks) + 1, !.err = "EOF"]

\* readData(r, &sig) after an optional chunk of part_001 (err != io.EOF is
\* the only failure), and r.ReadData(&sig) of the bool parser, whose result
\* is dropped: at the end of the stream sig keeps its value.
readSigLenient(s, chunks) ==
    IF s.pos + 1 <= Len(chunks)
    THEN [s EXCEPT !.pos = s.pos + 1, !.sig = chunks[s.pos + 1].sig]
    ELSE [s EXCEPT !.pos = Len(chunks) + 1]

\* The chunk whose signature was read last.
Chunk(s, chunks) == chunks[s.pos]

hcaHeaderRead(s, c) ==
    [s EXCEPT !.h.version = c.version, !.h.dataOffset = c.dataOffset]

\* raw is the packed u32 as four bytes: channelCount = raw >> 24, samplingRate
\* = raw & 0x00FFFFFF.
fmtHeaderRead(s, c) ==
    LET ch == c.raw[1]
        rate == (c.raw[2] * 256 + c.raw[3]) * 256 + c.raw[4]
        t == [s EXCEPT !.h.channelCount = ch, !.h.samplingRate = rate,
                       !.h.blockCount = c.blockCount,
                       !.h.fmtR01 = c.r01, !.h.fmtR02 = c.r02]
    IN  IF ~(ch >= 1 /\ ch <= 16) THEN Fail(t, "invalid channel count")
        ELSE IF ~(rate >= 1 /\ rate <= 8388607)
        THEN Fail(t, "invalid sampling rate")
        ELSE t

compHeaderRead(s, c) ==
    LET t == [s EXCEPT !.h.blockSize = c.blockSize,
                       !.h.compR01 = c.buf[1], !.h.compR02 = c.buf[2],
                       !.h.compR03 = c.buf[3], !.h.compR04 = c.buf[4],
                       !.h.compR05 = c.buf[5], !.h.compR06 = c.buf[6],
                       !.h.compR07 = u32(c.buf[7]), !.h.compR08 = c.buf[8]]
    IN  IF ~((t.h.blockSize >= 8 /\ t.h.blockSize <= 65535)
             \/ t.h.blockSize = 0)
        THEN Fail(t, "invalid block size")
        ELSE IF ~(t.h.compR01 <= t.h.compR02 /\ t.h.compR02 <= 31)
        THEN Fail(t, "invalid comp params")
        ELSE t

\* compR07 = compR05 - compR06 is a uint32 subtraction.
decHeaderRead(s, c) ==
    LET r05 == c.buf[3] + 1
        r06 == IF c.buf[6] > 0 THEN c.buf[4] + 1 ELSE c.buf[3] + 1
        r03 == c.buf[5] % 16
        t == [s EXCEPT !.h.blockSize = c.blockSize,
                       !.h.compR01 = c.buf[1], !.h.compR02 = c.buf[2],
                       !.h.compR03 = IF r03 = 0 THEN 1 ELSE r03,
                       !.h.compR04 = c.buf[5] \div 16,
                       !.h.compR05 = r05, !.h.compR06 = r06,
                       !.h.compR07 = u32Sub(u32(r05), u32(r06)),
                       !.h.compR08 = 0]
    IN  IF ~((t.h.blockSize >= 8 /\ t.h.blockSize <= 65535)
             \/ t.h.blockSize = 0)
        THEN Fail(t, "invalid block size")
        ELSE IF ~(t.h.compR01 <= t.h.compR02 /\ t.h.compR02 <= 31)
        THEN Fail(t, "invalid comp params")
        ELSE t

vbrHeaderRead(s, c) == [s EXCEPT !.h.vbrR01 = c.r01, !.h.vbrR02 = c.r02]

athHeaderRead(s, c) == [s EXCEPT !.h.athType = c.type]

\* A loop reader that takes any range: the change the range property must
\* be sensitive to.
loopHeaderReadAnyRange(s, c) ==
    [s EXCEPT !.h.loopStart = c.loopStart, !.h.loopEnd = c.loopEnd,
              !.h.loopR01 = c.r01, !.h.loopR02 = c.r02, !.h.loopFlg = TRUE]

loopHeaderRead(s, c) ==
    LET t == [s EXCEPT !.h.loopStart = c.loopStart, !.h.loopEnd = c.loopEnd,
                       !.h.loopR01 = c.r01, !.h.loopR02 = c.r02,
                       !.h.loopFlg = TRUE]
    IN  IF ~(t.h.loopStart <= t.h.loopEnd /\ t.h.loopEnd < t.h.blockCount)
        THEN Fail(t, "invalid loop range")
        ELSE t

ciphHeaderRead(s, c) ==
    LET t == [s EXCEPT !.h.ciphType = c.type]
    IN  IF ~(c.type = 0 \/ c.type = 1 \/ c.type = 56)
        THEN Fail(t, "unsupported cipher type")
        ELSE t

rvaHeaderRead(s, c) == [s EXCEPT !.h.rvaVolume = c.volume]

commHeaderRead(s, c) ==
    [s EXCEPT !.h.commLen = c.len, !.h.commComment = c.text]

\* ceil2 on a uint32 pair a and a byte b: a / b by long division over the
\* two halves, one more when a % b is not zero.
ceil2(a, b) ==
    IF b = 0 THEN u32(0)
    ELSE LET low == (a[1] % b) * 65536 + a[2]
             t == <<a[1] \div b, low \div b>>
         IN  IF low % b # 0 THEN u32Add(t, u32(1)) ELSE t

\* stATH.Init: the table types are 0 and 1.
athInit(type, samplingRate) == type \in {0, 1}

\* Cipher.Init: the table types are 0, 1 and 0x38.
cipherInit(type) == type \in {0, 1, 56}

\* An optional chunk of part_001's loadHeader: read it when the signature
\* matches and then read the next signature (tolerating the end of the
\* stream), otherwise leave the stream alone.
optVBR(s, chunks) ==
    IF s.err # "" THEN s
    ELSE IF Masked(s.sig) = sigVBR
    THEN readSigLenient(vbrHeaderRead(s, Chunk(s, chunks)), chunks)
    ELSE [s EXCEPT !.h.vbrR01 = 0, !.h.vbrR02 = 0]

\* An ath step whose default is type 0 for every version: the change the
\* defaults property must be sensitive to.
optATHZero(s, chunks) ==
    IF s.err # "" THEN s
    ELSE IF Masked(s.sig) = sigATH
    THEN readSigLenient(athHeaderRead(s, Chunk(s, chunks)), chunks)
    ELSE [s EXCEPT !.h.athType = 0]

optATH(s, chunks) ==
    IF s.err # "" THEN s
    ELSE IF Masked(s.sig) = sigATH
    THEN readSigLenient(athHeaderRead(s, Chunk(s, chunks)), chunks)
    ELSE [s EXCEPT !.h.athType = IF s.h.version >= 512 THEN 0 ELSE 1]

\* Without a loop chunk part_001 clears loopFlg only: loopStart, loopEnd and
\* loopR01 keep what the struct held.
optLOOP(s, chunks) ==
    IF s.err # "" THEN s
    ELSE IF Masked(s.sig) = sigLOOP
    THEN LET t == loopHeaderRead(s, Chunk(s, chunks))
         IN  IF t.err # "" THEN t ELSE readSigLenient(t, chunks)
    ELSE [s EXCEPT !.h.loopFlg = FALSE]

optCIPH(s, chunks) ==
    IF s.err # "" THEN s
    ELSE IF Masked(s.sig) = sigCIPH
    THEN LET t == ciphHeaderRead(s, Chunk(s, chunks))
         IN  IF t.err # "" THEN t ELSE readSigLenient(t, chunks)
    ELSE [s EXCEPT !.h.ciphType = 0]

optRVA(s, chunks) ==
    IF s.err # "" THEN s
    ELSE IF Masked(s.sig) = sigRVA
    THEN readSigLenient(rvaHeaderRead(s, Chunk(s, chunks)), chunks)
    ELSE [s EXCEPT !.h.rvaVolume = 100]

\* A comm step that steps over one chunk it does not know before it gives
\* up: the change the chunk-order property must be sensitive to.
skipCOMM(s, chunks) ==
    IF s.err # "" THEN s
    ELSE LET t == IF Masked(s.sig) = sigCOMM THEN s
                  ELSE readSigLenient(s, chunks)
         IN  IF t.pos <= Len(chunks) /\ Masked(t.sig) = sigCOMM
             THEN commHeaderRead(t, Chunk(t, chunks))
             ELSE [s EXCEPT !.h.commLen = 0, !.h.commComment = <<>>]

optCOMM(s, chunks) ==
    IF s.err # "" THEN s
    ELSE IF Masked(s.sig) = sigCOMM
    THEN commHeaderRead(s, Chunk(s, chunks))
    ELSE [s EXCEPT !.h.commLen = 0, !.h.commComment = <<>>]

\* A fmt step that takes any signature: the change the signature property
\* must be sensitive to.
anyFMT(s, chunks) ==
    IF s.err # "" THEN s
    ELSE LET t == fmtHeaderRead(s, Chunk(s, chunks))
         IN  IF t.err # "" THEN t ELSE readSig(t, chunks)

\* The mandatory chunks of part_001's loadHeader: HCA, fmt, then comp or dec,
\* every signature read failing at the end of the stream.
mandHCA(s, chunks) ==
    LET t == readSig(s, chunks)
    IN  IF t.err # "" THEN t
        ELSE IF Masked(t.sig) # sigHCA THEN Fail(t, "invalid HCA signature")
        ELSE readSig(hcaHeaderRead(t, Chunk(t, chunks)), chunks)

mandFMT(s, chunks) ==
    IF s.err # "" THEN s
    ELSE IF Masked(s.sig) # sigFMT THEN Fail(s, "expected fmt signature")
    ELSE LET t == fmtHeaderRead(s, Chunk(s, chunks))
         IN  IF t.err # "" THEN t ELSE readSig(t, chunks)

mandCOMP(s, chunks) ==
    IF s.err # "" THEN s
    ELSE IF Masked(s.sig) = sigCOMP
    THEN LET t == compHeaderRead(s, Chunk(s, chunks))
         IN  IF t.err # "" THEN t ELSE readSig(t, chunks)
    ELSE IF Masked(s.sig) = sigDEC
    THEN LET t == decHeaderRead(s, Chunk(s, chunks))
         IN  IF t.err # "" THEN t ELSE readSig(t, chunks)
    ELSE Fail(s, "expected comp or dec signature")

\* "Finalize initialization" of part_001's loadHeader.
finalize(s) ==
    IF s.err # "" THEN s
    ELSE IF ~athInit(s.h.athType, s.h.samplingRate)
    THEN Fail(s, "ATH init failed")
    ELSE IF ~cipherInit(s.h.ciphType) THEN Fail(s, "cipher init failed")
    ELSE LET r03 == IF s.h.compR03 = 0 THEN 1 ELSE s.h.compR03
             r09 == IF ~(s.h.compR01 = 1 /\ s.h.compR02 = 15)
                    THEN ceil2(u32Sub(u32(s.h.compR05),
                                      u32Add(u32(s.h.compR06), s.h.compR07)),
                               s.h.compR08)
                    ELSE s.h.compR09
         IN  [s EXCEPT !.h.compR03 = r03, !.h.compR09 = r09,
                       !.h.decoder = s.h.decoder + 1]

\* Hca.loadHeader of part_001 on the Hca fields h0: the chunk readers in the
\* order of the code, st<n> holding the one state the n-th reader leaves.
loadHeader(h0, chunks) ==
    LET s0 == [h |-> h0, pos |-> 0, sig |-> <<0, 0, 0, 0>>, err |-> ""]
        st1 == {mandHCA(s0, chunks)}
        st2 == {mandFMT(s, chunks) : s \in st1}
        st3 == {mandCOMP(s, chunks) : s \in st2}
        st4 == {optVBR(s, chunks) : s \in st3}
        st5 == {optATH(s, chunks) : s \in st4}
        st6 == {optLOOP(s, chunks) : s \in st5}
        st7 == {optCIPH(s, chunks) : s \in st6}
        st8 == {optRVA(s, chunks) : s \in st7}
        st9 == {optCOMM(s, chunks) : s \in st8}
    IN  CHOOSE t \in {finalize(s) : s \in st9} : TRUE

\* ---- the bool parser (src/hca_header.go:308-444, used by decodeBuffer).
\* Its signature reads drop the reader's error, its loop reader leaves
\* loopFlg alone, a missing loop chunk resets every loop field, and only
\* compR01 = 1, compR02 = 15 is accepted.
loopHeaderReadBool(s, c) ==
    LET t == [s EXCEPT !.h.loopStart = c.loopStart, !.h.loopEnd = c.loopEnd,
                       !.h.loopR01 = c.r01, !.h.loopR02 = c.r02]
    IN  IF ~(t.h.loopStart >= 0 /\ t.h.loopStart <= t.h.loopEnd
             /\ t.h.loopEnd < t.h.blockCount)
        THEN Fail(t, "false")
        ELSE t

boolHCA(s, chunks) ==
    LET t == readSigLenient(s, chunks)
    IN  IF Masked(t.sig) = sigHCA
        THEN readSigLenient(hcaHeaderRead(t, Chunk(t, chunks)), chunks)
        ELSE Fail(t, "false")

boolFMT(s, chunks) ==
    IF s.err # "" THEN s
    ELSE IF Masked(s.sig) = sigFMT
    THEN LET t == fmtHeaderRead(s, Chunk(s, chunks))
         IN  IF t.err # "" THEN t ELSE readSigLenient(t, chunks)
    ELSE Fail(s, "false")

boolCOMP(s, chunks) ==
    IF s.err # "" THEN s
    ELSE IF Masked(s.sig) = sigCOMP
    THEN LET t == compHeaderRead(s, Chunk(s, chunks))
         IN  IF t.err # "" THEN t ELSE readSigLenient(t, chunks)
    ELSE IF Masked(s.sig) = sigDEC
    THEN LET t == decHeaderRead(s, Chunk(s, chunks))
         IN  IF t.err # "" THEN t ELSE readSigLenient(t, chunks)
    ELSE Fail(s, "false")

boolLOOP(s, chunks) ==
    IF s.err # "" THEN s
    ELSE IF Masked(s.sig) = sigLOOP
    THEN LET t == loopHeaderReadBool(s, Chunk(s, chunks))
         IN  IF t.err # "" THEN t ELSE readSigLenient(t, chunks)
    ELSE [s EXCEPT !.h.loopStart = 0, !.h.loopEnd = 0, !.h.loopR01 = 0,
                   !.h.loopR02 = 1024, !.h.loopFlg = FALSE]

boolFinalize(s) ==
    IF s.err # "" THEN s
    ELSE IF ~athInit(s.h.athType, s.h.samplingRate) THEN Fail(s, "false")
    ELSE IF ~cipherInit(s.h.ciphType) THEN Fail(s, "false")
    ELSE LET r03 == IF s.h.compR03 = 0 THEN 1 ELSE s.h.compR03
         IN  IF ~(s.h.compR01 = 1 /\ s.h.compR02 = 15)
             THEN Fail([s EXCEPT !.h.compR03 = r03], "false")
             ELSE [s EXCEPT !.h.compR03 = r03,
                            !.h.compR09 =
                                ceil2(u32Sub(u32(s.h.compR05),
                                             u32Add(u32(s.h.compR06),
                                                    s.h.compR07)),
                                      s.h.compR08),
                            !.h.decoder = s.h.decoder + 1]

\* Hca.loadHeader of src/hca_header.go:308 on the Hca fields h0, reader
\* after reader as above.
loadHeaderBool(h0, chunks) ==
    LET s0 == [h |-> h0, pos |-> 0, sig |-> <<0, 0, 0, 0>>, err |-> ""]
        st1 == {boolHCA(s0, chunks)}
        st2 == {boolFMT(s, chunks) : s \in st1}
        st3 == {boolCOMP(s, chunks) : s \in st2}
        st4 == {optVBR(s, chunks) : s \in st3}
        st5 == {optATH(s, chunks) : s \in st4}
        st6 == {boolLOOP(s, chunks) : s \in st5}
        st7 == {optCIPH(s, chunks) : s \in st6}
        st8 == {optRVA(s, chunks) : s \in st7}
        st9 == {optCOMM(s, chunks) : s \in st8}
    IN  CHOOSE t \in {boolFinalize(s) : s \in st9} : TRUE

\* -------------------------------------------------------------- WAVE header
\* Samples of one frame per channel (0x80 * 8).
SamplesPerBlock == 1024

\* newWaveHeader: the chunk structs with their initial fields.
newWaveHeader ==
    [fmtType |-> 0, fmtBitCount |-> 0, fmtChannelCount |-> 0,
     fmtSamplingRate |-> 0, fmtSamplingSize |-> 0, fmtSamplesPerSec |-> 0,
     riffSize |-> 0, SmplOk |-> FALSE, samplePeriod |-> 0,
     smplLoopStart |-> 0, smplLoopEnd |-> 0, loopPlayCount |-> 0,
     NoteOk |-> FALSE, noteSize |-> 0, comm |-> <<>>, dataSize |-> 0]

\* fmt fields that are tagged integer PCM in every mode.
riffFieldsPcm(h, Mode) ==
    LET bits == IF Mode > 0 THEN Mode ELSE 32
        size == (bits \div 8) * h.channelCount
    IN  [newWaveHeader EXCEPT
            !.fmtType = 1,
            !.fmtBitCount = bits,
            !.fmtChannelCount = h.channelCount,
            !.fmtSamplingRate = h.samplingRate,
            !.fmtSamplingSize = size,
            !.fmtSamplesPerSec = h.samplingRate * size]

\* The fmt fields, the same in every buildWaveHeader.
riffFields(h, Mode) ==
    LET bits == IF Mode > 0 THEN Mode ELSE 32
        size == (bits \div 8) * h.channelCount
    IN  [newWaveHeader EXCEPT
            !.fmtType = IF Mode > 0 THEN 1 ELSE 3,
            !.fmtBitCount = bits,
            !.fmtChannelCount = h.channelCount,
            !.fmtSamplingRate = h.samplingRate,
            !.fmtSamplingSize = size,
            !.fmtSamplesPerSec = h.samplingRate * size]

\* One binary.Write call of a chunk writer: the field, its width in bytes
\* and the value written (0 for the four-character tags).
Field(name, n, v) == [field |-> name, n |-> n, v |-> v]

\* stWAVEriff.NeoWrite: the eleven binary.Write calls in program order;
\* fmtSize is the 0x10 of newWaveRiff.
riffWrite(wav) ==
    <<Field("riff", 4, 0), Field("riffSize", 4, wav.riffSize),
      Field("wave", 4, 0), Field("fmt", 4, 0), Field("fmtSize", 4, 16),
      Field("fmtType", 2, wav.fmtType),
      Field("fmtChannelCount", 2, wav.fmtChannelCount),
      Field("fmtSamplingRate", 4, wav.fmtSamplingRate),
      Field("fmtSamplesPerSec", 4, wav.fmtSamplesPerSec),
      Field("fmtSamplingSize", 2, wav.fmtSamplingSize),
      Field("fmtBitCount", 2, wav.fmtBitCount)>>

\* note.noteSize: 4 + commLen + 1 rounded up to a multiple of 4.
noteSizeOf(commLen) ==
    LET n == 4 + commLen + 1
    IN  IF n % 4 # 0 THEN n + (4 - (n % 4)) ELSE n

\* uint32(1.0 / float64(rate) * 1000000000): for every rate the header test
\* lets pass (1..0x7FFFFF) the float64 product truncates to the integer
\* quotient.
samplePeriodOf(rate) == 1000000000 \div rate

\* Hca.buildWaveHeader of part_001.
buildWaveHeader(h, Mode, Loop) ==
    LET w0 == riffFields(h, Mode)
        w1 == IF h.loopFlg
              THEN [w0 EXCEPT
                      !.SmplOk = TRUE,
                      !.samplePeriod = samplePeriodOf(w0.fmtSamplingRate),
                      !.smplLoopStart = h.loopStart * SamplesPerBlock,
                      !.smplLoopEnd = h.loopEnd * SamplesPerBlock,
                      !.loopPlayCount =
                          IF h.loopR01 = 128 THEN 0 ELSE h.loopR01]
              ELSE w0
        w2 == IF h.commLen > 0
              THEN [w1 EXCEPT !.NoteOk = TRUE,
                              !.noteSize = noteSizeOf(h.commLen),
                              !.comm = h.commComment]
              ELSE w1
        totalSamples ==
            h.blockCount * SamplesPerBlock
            + (IF Loop > 0
               THEN (h.loopEnd - h.loopStart) * SamplesPerBlock * (Loop - 1)
               ELSE 0)
        dataSize == totalSamples * w2.fmtSamplingSize
    IN  [w2 EXCEPT
            !.dataSize = dataSize,
            !.riffSize = 36 + dataSize
                         + (IF w2.SmplOk THEN 60 ELSE 0)
                         + (IF w2.NoteOk THEN 8 + w2.noteSize ELSE 0)]

\* Hca.buildWaveHeader of part_002 (and part_003): the header it returns.
buildWaveHeaderBool(h, Mode, Loop) ==
    LET w0 == riffFields(h, Mode)
        size == w0.fmtSamplingSize
        w1 == IF h.loopFlg
              THEN [w0 EXCEPT
                      !.samplePeriod = samplePeriodOf(w0.fmtSamplingRate),
                      !.smplLoopStart = h.loopStart * SamplesPerBlock * size,
                      !.smplLoopEnd = h.loopEnd * SamplesPerBlock * size,
                      !.loopPlayCount =
                          IF h.loopR01 = 128 THEN 0 ELSE h.loopR01]
              ELSE IF Loop # 0
              THEN [w0 EXCEPT
                      !.smplLoopStart = 0,
                      !.smplLoopEnd = h.blockCount * SamplesPerBlock * size]
              ELSE w0
        w2 == IF h.commLen > 0
              THEN [w1 EXCEPT !.NoteOk = TRUE,
                              !.noteSize = noteSizeOf(h.commLen),
                              !.comm = h.commComment]
              ELSE w1
        dataSize == h.blockCount * SamplesPerBlock * size
                    + (w2.smplLoopEnd - w2.smplLoopStart) * Loop
    IN  [w2 EXCEPT
            !.dataSize = dataSize,
            !.SmplOk = (h.loopFlg /\ Loop = 0),
            !.riffSize = 28 + 8 + dataSize
                         + (IF h.loopFlg /\ Loop = 0 THEN 17 * 4 ELSE 0)
                         + (IF h.commLen > 0 THEN 8 + w2.noteSize ELSE 0)]

\* Hca.buildWaveHeader of part_002: what it leaves in the Hca fields (without
\* loopFlg a forced loop becomes a loop over the whole stream).
buildWaveHeaderBoolH(h, Loop) ==
    IF ~h.loopFlg /\ Loop # 0
    THEN [h EXCEPT !.loopStart = 0, !.loopEnd = h.blockCount]
    ELSE h

\* Bytes each chunk writer of wave_gen.go puts on the sink.
\* stWAVEriff.NeoWrite: "RIFF", riffSize, "WAVE", "fmt ", fmtSize and the
\* six fmt fields.
riffBytes == 4 + 4 + 4 + 4 + 4 + 2 + 2 + 4 + 4 + 2 + 2

\* stWAVEsmpl.NeoWrite: "smpl" and sixteen uint32 fields.
smplBytes == 4 + 16 * 4

\* stWAVEnote.NeoWrite: "note", noteSize, dwName, the comment and one zero
\* byte.
noteBytes(wav) == 4 + 4 + 4 + Len(wav.comm) + 1

\* stWAVEdata.NeoWrite: "data" and dataSize.
dataBytes == 4 + 4

\* One event of a run's I/O trace.
Ev(op, what, addr, n, frame) ==
    [op |-> op, what |-> what, addr |-> addr, n |-> n, frame |-> frame]

\* stWaveHeader.NeoWrite: the chunks in RIFF order, each when its flag is set.
headerWrites(wav) ==
    <<Ev("write", "riff", 0, riffBytes, -1)>>
    \o (IF wav.SmplOk THEN <<Ev("write", "smpl", 0, smplBytes, -1)>>
        ELSE <<>>)
    \o (IF wav.NoteOk THEN <<Ev("write", "note", 0, noteBytes(wav), -1)>>
        ELSE <<>>)
    \o <<Ev("write", "data", 0, dataBytes, -1)>>

\* ------------------------------------------------------------- block decode
Min(a, b) == IF a < b THEN a ELSE b

Max(a, b) == IF a > b THEN a ELSE b

\* cipher.Mask for cipher type 0, the only type the streams below carry: the
\* block is left as it is.
Mask(type, data) == data

\* clData.GetBit(16) at the start of a block: its first two bytes.
GetBit16(data) == data[1] * 256 + data[2]

\* A decode that does not look at the checksum: the change the CRC property
\* must be sensitive to.
decodeNoCheckSum(h, data) ==
    IF Len(data) < h.blockSize
    THEN [err |-> "insufficient data for a block", ran |-> FALSE]
    ELSE IF GetBit16(data) # 65535
    THEN [err |-> "invalid block magic number", ran |-> FALSE]
    ELSE [err |-> "", ran |-> TRUE]

\* Hca.decode of part_001: err is the error it returns, ran says whether
\* h.decoder.decode was called on the block.
decode(h, data) ==
    IF Len(data) < h.blockSize
    THEN [err |-> "insufficient data for a block", ran |-> FALSE]
    ELSE IF checkSum(data, 0) # 0
    THEN [err |-> "block checksum mismatch", ran |-> FALSE]
    ELSE IF GetBit16(Mask(h.ciphType, data)) # 65535
    THEN [err |-> "invalid block magic number", ran |-> FALSE]
    ELSE [err |-> "", ran |-> TRUE]

\* Hca.decode of part_002 (and part_003): false is err = "false"; a block
\* whose first 16 bits are not 0xFFFF is accepted without being decoded.
decodeBool(h, data) ==
    IF Len(data) < h.blockSize THEN [err |-> "false", ran |-> FALSE]
    ELSE IF checkSum(data, 0) # 0 THEN [err |-> "false", ran |-> FALSE]
    ELSE [err |-> "", ran |-> GetBit16(Mask(h.ciphType, data)) = 65535]

\* Bytes per sample Hca.save writes in each mode.
sampleBytes(Mode) == IF Mode = ModeFloat THEN 4 ELSE Mode \div 8

\* Hca.save: the bytes of one block's PCM, 1024 samples per channel.
save(h, Mode) == SamplesPerBlock * h.channelCount * sampleBytes(Mode)

\* ---------------------------------------------------------- sample formats
\* A float32 sample x is carried as the integer q = 4x; every sample used
\* is a multiple of 1/4 whose products below are exact in float32.
Int32Max == 2147483647

Int32Min == -2147483647 - 1

Abs(n) == IF n < 0 THEN -n ELSE n

Sgn(n) == IF n < 0 THEN -1 ELSE IF n > 0 THEN 1 ELSE 0

Clip(v, lo, hi) == IF v > hi THEN hi ELSE IF v < lo THEN lo ELSE v

\* The Go conversion of the float product x * K to an integer type when the
\* product is in that type's range: the product truncated toward zero.
truncMul(q, K) ==
    Sgn(q) * ((Abs(q) \div 4) * K + ((Abs(q) % 4) * K) \div 4)

\* int32(v) for a float v outside int32: the result depends on the
\* implementation; the lowest value (the integer indefinite of amd64) or
\* the nearest bound (the saturating conversion of arm64).
outOfRangeInt32(q) == IF q > 0 THEN {Int32Min, Int32Max} ELSE {Int32Min}

\* mode8BitConvert, one sample: int(x*127) + 128, then the two clips.
mode8BitConvert(q) == {Clip(truncMul(q, 127) + 128, 0, 255)}

\* mode16BitConvert, one sample: the float product is clipped, then
\* converted to int16.
mode16BitConvert(q) ==
    IF q * 32767 > 4 * 32767 THEN {32767}
    ELSE IF q * 32767 < 4 * (-32768) THEN {-32768}
    ELSE {truncMul(q, 32767)}

\* mode24BitConvert, one sample: the product is converted to int32 first
\* (it is inside int32 when |x| rounded up times 8388607 is) and clipped
\* afterwards; the three bytes stored are byte(val), byte(val >> 8),
\* byte(val >> 16).
mode24BitConvert(q) ==
    LET inInt32 == (Abs(q) + 3) \div 4 <= Int32Max \div 8388607
        vals == IF inInt32 THEN {truncMul(q, 8388607)}
                ELSE outOfRangeInt32(q)
        le24(val) == LET u == val % 16777216
                     IN  <<u % 256, (u \div 256) % 256, u \div 65536>>
    IN  {le24(Clip(val, -8388608, 8388607)) : val \in vals}

\* mode32BitConvert, one sample. The constant 2147483647.0 becomes the
\* float32 2^31, in the product and in the upper clip alike, so the product
\* is x * 2^31, a value above 2^31 is set to 2^31, and 2^31 itself goes to
\* the int32 conversion.
mode32BitConvert(q) ==
    IF q >= 4 THEN outOfRangeInt32(q)
    ELSE IF q <= -4 THEN {Int32Min}
    ELSE {q * 536870912}

\* The switch of Hca.save for one sample; ModeFloat writes base as it is.
convert(Mode, q) ==
    IF Mode = Mode8Bit THEN mode8BitConvert(q)
    ELSE IF Mode = Mode16Bit THEN mode16BitConvert(q)
    ELSE IF Mode = Mode24Bit THEN mode24BitConvert(q)
    ELSE IF Mode = Mode32Bit THEN mode32BitConvert(q)
    ELSE {q}

\* A mode switch that also lets the value 12 through.
ModesAndTwelve == {ModeFloat, Mode8Bit, Mode16Bit, Mode24Bit, Mode32Bit, 12}

\* The modes the mode switch of Decode and decodeBuffer accepts.
ValidModes == {ModeFloat, Mode8Bit, Mode16Bit, Mode24Bit, Mode32Bit}

\* ------------------------------------------------------------ source streams
\* Block size of the streams below, the smallest the comp reader accepts.
FrameLen == 8

Bytes32(x) ==
    <<x \div 16777216, (x \div 65536) % 256, (x \div 256) % 256, x % 256>>

\* A signature as it stands in a file: "good" has the plain characters,
\* "high" has bit 7 of every byte set (the form encoders write), "other" is the
\* comm signature standing in the wrong place, "junk" is no signature.
SigBytes(sig, form) ==
    IF form = "good" THEN Bytes32(sig)
    ELSE IF form = "high" THEN [i \in 1..4 |-> Bytes32(sig)[i] + 128]
    ELSE IF form = "other" THEN Bytes32(sigCOMM)
    ELSE <<1, 2, 3, 4>>

hcaChunk(form) ==
    [sig |-> SigBytes(sigHCA, form), version |-> 512, dataOffset |-> 96]

\* 44100 Hz is 0x00AC44.
fmtChunk(form, ch, bc) ==
    [sig |-> SigBytes(sigFMT, form), raw |-> <<ch, 0, 172, 68>>,
     blockCount |-> bc, r01 |-> 0, r02 |-> 0]

compChunk(form) ==
    [sig |-> SigBytes(sigCOMP, form), blockSize |-> FrameLen,
     buf |-> <<1, 15, 1, 0, 128, 128, 0, 0, 0, 0>>]

decChunk(form) ==
    [sig |-> SigBytes(sigDEC, form), blockSize |-> FrameLen,
     buf |-> <<1, 15, 127, 0, 16, 0>>]

loopChunk(ls, le) ==
    [sig |-> SigBytes(sigLOOP, "high"), loopStart |-> ls, loopEnd |-> le,
     r01 |-> 0, r02 |-> 1024]

commChunk(n) ==
    [sig |-> SigBytes(sigCOMM, "high"), len |-> n, text |-> [i \in 1..n |-> 65]]

\* An HCA chunk of the given version.
hcaChunkV(form, version) ==
    [sig |-> SigBytes(sigHCA, form), version |-> version, dataOffset |-> 96]

vbrChunk == [sig |-> SigBytes(sigVBR, "high"), r01 |-> 1, r02 |-> 2]

athChunk(type) == [sig |-> SigBytes(sigATH, "high"), type |-> type]

ciphChunk(type) == [sig |-> SigBytes(sigCIPH, "high"), type |-> type]

\* rvaVolume is kept in hundredths: 50 is 0.5.
rvaChunk == [sig |-> SigBytes(sigRVA, "high"), volume |-> 50]

\* The bytes between the last chunk and the data offset.
padChunk == [sig |-> <<0, 0, 0, 0>>]

\* One block: sync word, the block's index as payload, and the CRC-16 that
\* makes checkSum of the whole block zero.
withCrc(body) ==
    LET c == checkSum(body, 0) IN body \o <<c \div 256, c % 256>>

goodFrame(i) == withCrc(<<255, 255, i, 0, 0, 0>>)

\* A block with a valid CRC whose first 16 bits are not 0xFFFF.
badSyncFrame(i) == withCrc(<<18, 52, i, 0, 0, 0>>)

\* A block whose CRC does not match.
badCrcFrame(i) ==
    [goodFrame(i) EXCEPT ![FrameLen] = (goodFrame(i)[FrameLen] + 1) % 256]

RECURSIVE Flatten(_)
Flatten(ss) == IF ss = <<>> THEN <<>> ELSE Head(ss) \o Flatten(Tail(ss))

\* The data region of a stream of n blocks with one defect: block at of kind
\* "crc" or "sync" is damaged, "cutAt" ends the file before block at,
\* "cutIn" ends it in the middle of block at; kind "none" is a sound stream.
dataOf(n, kind, at) ==
    LET frame(i) == IF i = at /\ kind = "crc" THEN badCrcFrame(i)
                    ELSE IF i = at /\ kind = "sync" THEN badSyncFrame(i)
                    ELSE goodFrame(i)
        whole == IF kind \in {"cutAt", "cutIn"} THEN at ELSE n
    IN  Flatten([i \in 1..whole |-> frame(i - 1)])
        \o (IF kind = "cutIn"
            THEN SubSeq(goodFrame(at), 1, FrameLen \div 2) ELSE <<>>)

\* The two forms of the decode entry point.
APIs == {"Decode", "decodeBuffer"}

\* What endibuf's ReadBytes(n) can hand back, next to the error decodeBlocks
\* drops, when the source holds fewer than n bytes: "short" is only the bytes
\* read, "padded" a slice of n bytes with zeros behind the bytes read,
\* "zeroed" a slice of n zero bytes.  The library is not part of the
\* repository, so a run may meet any of them.
EofReads == {"short", "padded", "zeroed"}

\* One run's input: the decoder options, the source stream, and the
\* behaviour of ReadBytes at the end of the source.
Input(a, m, l, cs, d, e) ==
    [api |-> a, Mode |-> m, Loop |-> l, chunks |-> cs, data |-> d,
     eofRead |-> e]

\* Streams that exercise the block loop: every block count, every valid loop
\* range, every forced loop count, and at most one damaged or missing block.
LoopRanges(bc) ==
    {<<>>} \cup {<<ls, le>> : ls \in 0..(bc - 1), le \in 0..(bc - 1)}

Defects(bc) ==
    {<<"none", 0>>}
    \cup ({"crc", "sync", "cutAt", "cutIn"} \X (0..(bc - 1)))

ControlInputs ==
    LET cases ==
            {c \in [a : APIs, l : 0..MaxLoop, bc : 0..MaxBlocks,
                    lr : LoopRanges(MaxBlocks), d : Defects(MaxBlocks),
                    e : EofReads] :
                /\ c.lr = <<>> \/ (c.lr[1] <= c.lr[2] /\ c.lr[2] < c.bc)
                /\ c.d[1] = "none" \/ c.d[2] < c.bc
                /\ c.e # "short" => (c.a = "decodeBuffer"
                                     /\ c.d[1] \in {"cutAt", "cutIn"})}
    IN  { Input(c.a, Mode16Bit, c.l,
                <<hcaChunk("high"), fmtChunk("high", 1, c.bc),
                  compChunk("high")>>
                \o (IF c.lr = <<>> THEN <<>>
                    ELSE <<loopChunk(c.lr[1], c.lr[2])>>)
                \o <<padChunk>>,
                dataOf(c.bc, c.d[1], c.d[2]), c.e) : c \in cases }

\* Streams that exercise the WAVE header: every output mode and one the mode
\* switch rejects, one and two channels, comments of every length, with and
\* without a loop chunk, with and without a forced loop.
WaveInputs ==
    { Input(c.a, c.m, c.l,
            <<hcaChunk("high"), fmtChunk("high", c.ch, 1), compChunk("high")>>
            \o (IF c.lp THEN <<loopChunk(0, 0)>> ELSE <<>>)
            \o (IF c.n > 0 THEN <<commChunk(c.n)>> ELSE <<padChunk>>),
            dataOf(1, "none", 0), "short") :
        c \in [a : APIs, m : ValidModes \cup {12}, l : 0..1, ch : 1..2,
               lp : BOOLEAN, n : 0..MaxComm] }

\* Streams that exercise the mandatory chunks: each of the first three
\* signatures plain, with the high bits set, replaced by another chunk's
\* signature or by junk; the third chunk comp or dec; the stream ending
\* after any number of chunks.
SigForms == {"good", "high", "other", "junk"}

SigInputs ==
    { Input(c.a, Mode16Bit, 0,
            SubSeq(<<hcaChunk(c.f1), fmtChunk(c.f2, 1, 0),
                     IF c.dec THEN decChunk(c.f3) ELSE compChunk(c.f3),
                     padChunk>>, 1, c.n),
            <<>>, "short") :
        c \in [a : APIs, f1 : SigForms, f2 : SigForms, f3 : SigForms,
               dec : BOOLEAN, n : 0..4] }

\* Streams that exercise the optional chunks: every subset of vbr, ath,
\* loop, ciph, rva and comm present (in the documented order, each with a
\* value other than its default where the format has one), for a version
\* below and one at 0x200.
OptKinds == {"vbr", "ath", "loop", "ciph", "rva", "comm"}

OptInputs ==
    { Input(c.a, Mode16Bit, 0,
            <<hcaChunkV("high", c.v), fmtChunk("high", 1, 1),
              compChunk("high")>>
            \o (IF "vbr" \in c.on THEN <<vbrChunk>> ELSE <<>>)
            \o (IF "ath" \in c.on
                THEN <<athChunk(IF c.v >= 512 THEN 1 ELSE 0)>> ELSE <<>>)
            \o (IF "loop" \in c.on THEN <<loopChunk(0, 0)>> ELSE <<>>)
            \o (IF "ciph" \in c.on THEN <<ciphChunk(0)>> ELSE <<>>)
            \o (IF "rva" \in c.on THEN <<rvaChunk>> ELSE <<>>)
            \o (IF "comm" \in c.on THEN <<commChunk(1)>> ELSE <<>>)
            \o <<padChunk>>,
            dataOf(1, "none", 0), "short") :
        c \in [a : APIs, v : {511, 512}, on : SUBSET OptKinds] }

\* Streams that exercise the range checks: a sound header in which at most
\* one of channel count, sampling rate, block size, r1/r2, cipher type
\* (-1: no ciph chunk) and loop range is moved to an edge of its range or
\* just past it, with a comp or a dec chunk.  Streams with block size 0 or
\* a cipher other than type 0 carry no blocks.
RangeInputs ==
    LET base == [ch |-> 1, rate |-> <<0, 172, 68>>, bs |-> FrameLen,
                 r |-> <<1, 15>>, ct |-> -1, lp |-> <<>>]
        vals == [ch : {0, 1, 16, 17},
                 rate : {<<0, 0, 0>>, <<0, 0, 1>>, <<0, 172, 68>>,
                         <<127, 255, 255>>, <<128, 0, 0>>},
                 bs : {0, 7, FrameLen, 65535},
                 r : {<<1, 15>>, <<2, 1>>, <<0, 32>>, <<31, 31>>},
                 ct : {-1, 0, 1, 2, 56},
                 lp : {<<>>, <<0, 0>>, <<1, 0>>, <<0, 1>>}]
        moved(v) == {f \in DOMAIN base : v[f] # base[f]}
        bc(v) == IF v.bs = 0 \/ v.ct \in {1, 56} THEN 0 ELSE 1
        third(v, dec) ==
            IF dec
            THEN [sig |-> SigBytes(sigDEC, "high"), blockSize |-> v.bs,
                  buf |-> <<v.r[1], v.r[2], 127, 0, 16, 0>>]
            ELSE [sig |-> SigBytes(sigCOMP, "high"), blockSize |-> v.bs,
                  buf |-> <<v.r[1], v.r[2], 1, 0, 128, 128, 0, 0, 0, 0>>]
    IN  { Input(a, Mode16Bit, 0,
                <<hcaChunk("high"),
                  [sig |-> SigBytes(sigFMT, "high"),
                   raw |-> <<v.ch>> \o v.rate, blockCount |-> bc(v),
                   r01 |-> 0, r02 |-> 0],
                  third(v, dec)>>
                \o (IF v.lp = <<>> THEN <<>>
                    ELSE <<loopChunk(v.lp[1], v.lp[2])>>)
                \o (IF v.ct = -1 THEN <<>> ELSE <<ciphChunk(v.ct)>>)
                \o <<padChunk>>,
                dataOf(bc(v), "none", 0), "short") :
            a \in APIs, dec \in BOOLEAN,
            v \in {x \in vals : Cardinality(moved(x)) <= 1} }

Inputs == ControlInputs \cup WaveInputs \cup SigInputs \cup OptInputs
          \cup RangeInputs

\* ------------------------------------------------------------ state machine
VARIABLES
    api,      \* which form of the entry point runs
    Mode,     \* Hca.Mode
    Loop,     \* Hca.Loop
    chunks,   \* the header chunks of the source
    data,     \* the bytes of the source from the data offset on
    eofRead,  \* endibuf.ReadBytes at the end of the source (see EofReads)
    h,        \* the Hca fields
    wav,      \* the WAVE header built by buildWaveHeader
    pc,       \* position in Decode / decodeBuffer
    srcPos,   \* read position of the source
    pass,     \* which decodeBlocks call is running
    iter,     \* i of the forced-loop for statement
    left,     \* blocks the running decodeBlocks call has still to read
    trace,    \* the header parse (what is its error), seeks and reads on the
              \* source, channel decoder calls, writes to the sink
    result,   \* "" while running, "ok", or the error returned
    base,     \* the float samples handed to Hca.save, in quarters
    pcm,      \* what Hca.save put on the sink for base
    fault,    \* the seek, read or write that returns an I/O error, if any
    fs,       \* the files DecodeFromFile works on
    ret,      \* "" until DecodeFromFile or Decoder returns, then "ok" (for
              \* Decoder "pipe", the reader it hands back) or its error
    history,  \* the calls this Hca value has finished before the current one
    cli,      \* main of the command-line driver: arguments, locals, exit code
    workers,  \* the goroutine main started for each input path
    pipe,     \* the io.Pipe of Decoder, its goroutine and the consumer
    crc       \* the arguments and results of the checkSum calls of a test

vars == <<api, Mode, Loop, chunks, data, eofRead, h, wav, pc, srcPos, pass,
          iter, left, trace, result, base, pcm, fault, fs, ret, history, cli,
          workers, pipe, crc>>

input == <<api, Mode, Loop, chunks, data, eofRead>>

\* The state outside one Decode / decodeBuffer call.
outer == <<base, pcm, fault, fs, ret, history, cli, workers, crc, pipe, crc>>

\* The configuration and source of a call.
Configured(in) ==
    /\ api = in.api
    /\ Mode = in.Mode
    /\ Loop = in.Loop
    /\ chunks = in.chunks
    /\ data = in.data
    /\ eofRead = in.eofRead

\* No call on the reader or the writer fails.
NoFault == [op |-> "none", at |-> 0]

\* A call that was handed a reader and a writer, not paths.
NoFiles == [src |-> "none", dst |-> "none", was |-> "none", createOk |-> TRUE,
            syncOk |-> TRUE]

\* The library used without the command-line driver.
NoCli == [pc |-> "none"]

\* A call that was handed its writer directly, not through Decoder.
NoPipe == [go |-> "none"]

\* No checkSum call is under test.
NoCrc == [pc |-> "none"]

\* Nothing outside the call is in play.
Idle ==
    /\ base = <<>>
    /\ pcm = <<>>
    /\ fault = NoFault
    /\ fs = NoFiles
    /\ ret = ""
    /\ history = <<>>
    /\ pipe = NoPipe
    /\ crc = NoCrc
    /\ cli = NoCli
    /\ workers = <<>>

\* The locals of a call that has just been entered.
Entered ==
    /\ wav = newWaveHeader
    /\ srcPos = 0
    /\ pass = "none"
    /\ iter = 0
    /\ left = 0
    /\ trace = <<>>
    /\ result = ""

Init ==
    /\ \E in \in Inputs : Configured(in)
    /\ Idle
    /\ h = NewDecoder
    /\ Entered
    /\ pc = "mode"

\* Return from Decode / decodeBuffer with an error.
Abort(msg) == /\ result' = msg
              /\ pc' = "done"

\* Step 1 of Decode (part_001:72-77); in decodeBuffer the Loop < 0 test and
\* the mode switch (part_002:100-107).
ValidateMode ==
    /\ pc = "mode"
    /\ IF api = "decodeBuffer" /\ Loop < 0 THEN Abort("false")
       ELSE IF Mode \notin ValidModes
       THEN Abort(IF api = "Decode" THEN "invalid output mode" ELSE "false")
       ELSE pc' = "load" /\ result' = result
    /\ UNCHANGED <<input, outer, h, wav, srcPos, pass, iter, left, trace>>

\* Step 2: h.loadHeader(r).
LoadHeader ==
    /\ pc = "load"
    /\ LET s == IF api = "Decode" THEN loadHeader(h, chunks)
                ELSE loadHeaderBool(h, chunks)
       IN  /\ h' = s.h
           /\ trace' = Append(trace, Ev("header", s.err, 0, 0, -1))
           /\ IF s.err # "" THEN Abort(s.err)
              ELSE pc' = "seek" /\ result' = result
    /\ UNCHANGED <<input, outer, wav, srcPos, pass, iter, left>>

\* Steps 3 and 4: initPools, then r.Seek(dataOffset, SeekStart).
SeekDataOffset ==
    /\ pc = "seek"
    /\ srcPos' = h.dataOffset
    /\ trace' = Append(trace, Ev("seek", "", h.dataOffset, 0, -1))
    /\ pc' = "wave"
    /\ UNCHANGED <<input, outer, h, wav, pass, iter, left, result>>

\* Step 6 of Decode: h.rvaVolume *= h.Volume.
applyVolume(hh) == [hh EXCEPT !.rvaVolume = hh.rvaVolume * hh.Volume]

\* Steps 5 and 6: buildWaveHeader, the header written to the sink, and
\* rvaVolume *= Volume.
WriteWaveHeader ==
    /\ pc = "wave"
    /\ wav' = IF api = "Decode" THEN buildWaveHeader(h, Mode, Loop)
              ELSE buildWaveHeaderBool(h, Mode, Loop)
    /\ h' = applyVolume(IF api = "Decode" THEN h
                        ELSE buildWaveHeaderBoolH(h, Loop))
    /\ trace' = trace \o headerWrites(wav')
    /\ pass' = IF Loop = 0 THEN "all" ELSE "head"
    /\ pc' = "pass"
    /\ UNCHANGED <<input, outer, srcPos, iter, left, result>>

\* The arguments of the decodeBlocks call that pass names.
loopBlockOffset == h.dataOffset + h.loopStart * h.blockSize

loopBlockCount == h.loopEnd - h.loopStart

passAddress == IF pass \in {"all", "head"} THEN h.dataOffset
               ELSE loopBlockOffset

\* A frame loop whose tail pass runs to blockCount - loopEnd: the change the
\* frame sequence must be sensitive to.
passCountShortTail ==
    IF pass = "all" THEN h.blockCount
    ELSE IF pass = "head" THEN h.loopEnd
    ELSE IF pass = "loop" THEN h.loopEnd - h.loopStart
    ELSE h.blockCount - h.loopEnd

passCount == IF pass = "all" THEN h.blockCount
             ELSE IF pass = "head" THEN h.loopEnd
             ELSE IF pass = "loop" THEN loopBlockCount
             ELSE h.blockCount - h.loopStart

\* An entry of decodeBlocks that builds a new channel decoder whenever the
\* pass seeks back to the loop start.
BeginPassNewDecoder ==
    /\ pc = "pass"
    /\ srcPos' = passAddress
    /\ trace' = Append(trace, Ev("seek", pass, passAddress, 0, -1))
    /\ left' = passCount
    /\ pc' = "blocks"
    /\ h' = IF pass \in {"loop", "tail"}
            THEN [h EXCEPT !.decoder = h.decoder + 1] ELSE h
    /\ UNCHANGED <<input, outer, wav, pass, iter, result>>

\* Entry of decodeBlocks: r.Seek(address, SeekStart).
BeginPass ==
    /\ pc = "pass"
    /\ srcPos' = passAddress
    /\ trace' = Append(trace, Ev("seek", pass, passAddress, 0, -1))
    /\ left' = passCount
    /\ pc' = "blocks"
    /\ UNCHANGED <<input, outer, h, wav, pass, iter, result>>

\* Bytes of the source a read of n bytes at srcPos finds.
sourceBytes(n) ==
    LET off == srcPos - h.dataOffset
        got == Max(0, Min(n, Len(data) - off))
    IN  SubSeq(data, off + 1, off + got)

\* io.ReadFull(r, blockBuffer): the read fails unless the block is whole.
ReadFull(n) ==
    LET b == sourceBytes(n)
    IN  [buf |-> b, err |-> IF Len(b) < n THEN "failed to read block" ELSE ""]

\* data, _ := r.ReadBytes(blockSize): the reader's error is dropped, and at
\* the end of the source the slice is what eofRead says.
ReadBytes(n) ==
    LET b == sourceBytes(n)
    IN  [buf |-> IF Len(b) = n \/ eofRead = "short" THEN b
                 ELSE IF eofRead = "padded"
                 THEN b \o [i \in 1..(n - Len(b)) |-> 0]
                 ELSE [i \in 1..n |-> 0],
         err |-> ""]

\* Index of the block at the read position.
blockAt == (srcPos - h.dataOffset) \div h.blockSize

\* One turn of the for statement of decodeBlocks: read a block, decode it,
\* serialize and save its PCM.
DecodeBlock ==
    /\ pc = "blocks"
    /\ left > 0
    /\ LET n == h.blockSize
           rd == IF api = "Decode" THEN ReadFull(n) ELSE ReadBytes(n)
           dec == IF api = "Decode" THEN decode(h, rd.buf)
                  ELSE decodeBool(h, rd.buf)
           read == Ev("read", "", srcPos, Len(sourceBytes(n)), blockAt)
       IN  /\ srcPos' = srcPos + Len(sourceBytes(n))
           /\ IF rd.err # ""
              THEN /\ trace' = Append(trace, read)
                   /\ Abort(rd.err)
                   /\ left' = left
              ELSE IF dec.err # ""
              THEN /\ trace' = Append(trace, read)
                   /\ Abort(dec.err)
                   /\ left' = left
              ELSE /\ trace' =
                        trace \o <<read>>
                        \o (IF dec.ran
                            THEN <<Ev("decode", "", 0, 0, blockAt)>>
                            ELSE <<>>)
                        \o <<Ev("write", "pcm", 0, save(h, Mode), blockAt)>>
                   /\ left' = left - 1
                   /\ pc' = pc
                   /\ result' = result
    /\ UNCHANGED <<input, outer, h, wav, pass, iter>>

\* decodeBlocks returned without error and another call follows: the head
\* pass is followed by the forced-loop for statement (i from 1 while
\* i < Loop) and that by the tail pass.
NextPass ==
    /\ pc = "blocks"
    /\ left = 0
    /\ pass \in {"head", "loop"}
    /\ LET i == IF pass = "head" THEN 1 ELSE iter + 1
       IN  /\ iter' = i
           /\ pass' = IF i < Loop THEN "loop" ELSE "tail"
    /\ pc' = "pass"
    /\ UNCHANGED <<input, outer, h, wav, srcPos, left, trace, result>>

\* The last decodeBlocks call returned without error: Decode returns nil,
\* decodeBuffer true.
Return ==
    /\ pc = "blocks"
    /\ left = 0
    /\ pass \in {"all", "tail"}
    /\ result' = "ok"
    /\ pc' = "done"
    /\ UNCHANGED <<input, outer, h, wav, srcPos, pass, iter, left, trace>>

\* ------------------------------------------------------- sample conversion
\* Longest buffer handed to Hca.save.
MaxSamples == 2

\* The samples -512, -2, -1, -1/4, 0, 1/4, 1, 2 and 512, in quarters.
SampleQuarters == {-2048, -8, -4, -1, 0, 1, 4, 8, 2048}

Buffers == UNION {[1..n -> SampleQuarters] : n \in 1..MaxSamples}

\* A decoder in some mode about to save one buffer of samples.
ConvertInit ==
    /\ \E m \in ValidModes :
          Configured(Input("Decode", m, 0, <<>>, <<>>, "short"))
    /\ base \in Buffers
    /\ pcm = <<>>
    /\ fault = NoFault
    /\ fs = NoFiles
    /\ ret = ""
    /\ history = <<>>
    /\ pipe = NoPipe
    /\ crc = NoCrc
    /\ cli = NoCli
    /\ workers = <<>>
    /\ h = NewDecoder
    /\ Entered
    /\ pc = "save"

\* Hca.save: base converted by the converter of the mode and written.
Save ==
    /\ pc = "save"
    /\ \E out \in [1..Len(base) ->
                     UNION {convert(Mode, base[i]) : i \in 1..Len(base)}] :
          /\ \A i \in 1..Len(base) : out[i] \in convert(Mode, base[i])
          /\ pcm' = out
    /\ pc' = "done"
    /\ result' = "ok"
    /\ UNCHANGED <<input, h, wav, srcPos, pass, iter, left, trace, base, fault,
                   fs, ret, history, cli, workers, crc, pipe>>

NextConvert == Save

SpecConvert == ConvertInit /\ [][NextConvert]_vars

\* ------------------------------------------------------------ I/O failures
\* Latest call of one kind that may fail.
MaxFaultAt == 4

\* Runs over a two-block stream in which the at-th seek, the at-th block
\* read or the at-th write returns an error and every other call succeeds.
Faults ==
    {NoFault} \cup {[op |-> o, at |-> k] :
                       o \in {"seek", "read", "write"}, k \in 1..MaxFaultAt}

FaultInputs ==
    { Input(a, Mode16Bit, l,
            <<hcaChunk("good"), fmtChunk("good", 1, 2), compChunk("good"),
              loopChunk(0, 1), padChunk>>,
            dataOf(2, "none", 0), e) :
        a \in APIs, l \in 0..1, e \in EofReads }

FaultInit ==
    /\ \E in \in FaultInputs : Configured(in)
    /\ base = <<>>
    /\ pcm = <<>>
    /\ fault \in Faults
    /\ fs = NoFiles
    /\ ret = ""
    /\ history = <<>>
    /\ pipe = NoPipe
    /\ crc = NoCrc
    /\ cli = NoCli
    /\ workers = <<>>
    /\ h = NewDecoder
    /\ Entered
    /\ pc = "mode"

\* The next call of kind op is the one that fails.
failsNow(op, before) ==
    /\ fault.op = op
    /\ Cardinality({i \in 1..Len(trace) : trace[i].op \in {op, op \o "fail"}})
          + before + 1 = fault.at

\* r.Seek(dataOffset) under a fault: Decode returns the error
\* (part_001:87-89), neoDecodeBuffer drops the result (decoder.go:89) and
\* goes on with the reader where it was.
SeekDataOffsetF ==
    IF failsNow("seek", 0)
    THEN /\ pc = "seek"
         /\ trace' = Append(trace, Ev("seekfail", "", h.dataOffset, 0, -1))
         /\ IF api = "Decode" THEN Abort("failed to seek to data offset")
            ELSE pc' = "wave" /\ result' = result
         /\ UNCHANGED <<input, outer, h, wav, srcPos, pass, iter, left>>
    ELSE SeekDataOffset

\* The header chunks with the failing write marked.
headerWritesF(hw) ==
    [i \in 1..Len(hw) |->
        IF failsNow("write", i - 1) THEN [hw[i] EXCEPT !.op = "writefail"]
        ELSE hw[i]]

\* The header write under a fault: Decode returns the error at the first
\* chunk that fails (part_001:94-96); NeoWrite has no result and
\* neoDecodeBuffer goes on (decoder.go:94-95).
WriteWaveHeaderF ==
    IF fault.op = "write" /\ fault.at <= Len(headerWrites(
          IF api = "Decode" THEN buildWaveHeader(h, Mode, Loop)
          ELSE buildWaveHeaderBool(h, Mode, Loop)))
    THEN /\ pc = "wave"
         /\ wav' = IF api = "Decode" THEN buildWaveHeader(h, Mode, Loop)
                   ELSE buildWaveHeaderBool(h, Mode, Loop)
         /\ h' = IF api = "Decode" THEN h
                 ELSE applyVolume(buildWaveHeaderBoolH(h, Loop))
         /\ IF api = "Decode"
            THEN /\ trace' = trace \o SubSeq(headerWritesF(headerWrites(wav')),
                                              1, fault.at)
                 /\ Abort("failed to write WAV header")
                 /\ pass' = pass
            ELSE /\ trace' = trace \o headerWritesF(headerWrites(wav'))
                 /\ pass' = IF Loop = 0 THEN "all" ELSE "head"
                 /\ pc' = "pass"
                 /\ result' = result
         /\ UNCHANGED <<input, outer, srcPos, iter, left>>
    ELSE WriteWaveHeader

\* The seek at the entry of decodeBlocks under a fault: Decode's decodeBlocks
\* returns the error (part_001:154-156), neoDecodeFromBytesDecode drops it
\* (decoder.go:130).
BeginPassF ==
    IF failsNow("seek", 0)
    THEN /\ pc = "pass"
         /\ trace' = Append(trace, Ev("seekfail", pass, passAddress, 0, -1))
         /\ IF api = "Decode"
            THEN Abort("seek to block address failed") /\ left' = left
            ELSE left' = passCount /\ pc' = "blocks" /\ result' = result
         /\ UNCHANGED <<input, outer, h, wav, srcPos, pass, iter>>
    ELSE BeginPass

\* One turn of the block loop under a fault.  A failed read: io.ReadFull's
\* error ends Decode (part_001:160-162); ReadBytes' error is dropped
\* (decoder.go:132) and the block decoded is what the reader handed back,
\* nothing or a block of zeros.  A failed write: save's error ends Decode
\* (part_001:170-172); neoSave has no result (decoder.go:137).
DecodeBlockF ==
    IF failsNow("read", 0) \/ failsNow("write", 0)
    THEN /\ pc = "blocks"
         /\ left > 0
         /\ LET n == h.blockSize
                rf == failsNow("read", 0)
                wf == failsNow("write", 0)
                rd == IF ~rf
                      THEN IF api = "Decode" THEN ReadFull(n) ELSE ReadBytes(n)
                      ELSE IF api = "Decode"
                      THEN [buf |-> <<>>, err |-> "failed to read block"]
                      ELSE [buf |-> IF eofRead = "short" THEN <<>>
                                    ELSE [i \in 1..n |-> 0],
                            err |-> ""]
                got == IF rf THEN 0 ELSE Len(sourceBytes(n))
                dec == IF api = "Decode" THEN decode(h, rd.buf)
                       ELSE decodeBool(h, rd.buf)
                read == Ev(IF rf THEN "readfail" ELSE "read", "", srcPos, got,
                           blockAt)
                write == Ev(IF wf THEN "writefail" ELSE "write", "pcm", 0,
                            IF wf THEN 0 ELSE save(h, Mode), blockAt)
            IN  /\ srcPos' = srcPos + got
                /\ IF rd.err # ""
                   THEN /\ trace' = Append(trace, read)
                        /\ Abort(rd.err)
                        /\ left' = left
                   ELSE IF dec.err # ""
                   THEN /\ trace' = Append(trace, read)
                        /\ Abort(dec.err)
                        /\ left' = left
                   ELSE /\ trace' =
                             trace \o <<read>>
                             \o (IF dec.ran
                                 THEN <<Ev("decode", "", 0, 0, blockAt)>>
                                 ELSE <<>>)
                             \o <<write>>
                        /\ IF wf /\ api = "Decode"
                           THEN Abort("failed to save block") /\ left' = left
                           ELSE /\ left' = left - 1
                                /\ pc' = pc
                                /\ result' = result
         /\ UNCHANGED <<input, outer, h, wav, pass, iter>>
    ELSE DecodeBlock

NextFault ==
    \/ ValidateMode
    \/ LoadHeader
    \/ SeekDataOffsetF
    \/ WriteWaveHeaderF
    \/ BeginPassF
    \/ DecodeBlockF
    \/ NextPass
    \/ Return

SpecFault == FaultInit /\ [][NextFault]_vars

\* ---------------------------------------------------------- DecodeFromFile
\* The source path names a file that opens or one that does not; the
\* destination path names nothing or an older file; os.Create and
\* dstFile.Sync succeed or fail.
Files ==
    [src : {"present", "missing"}, dst : {"absent", "old"},
     was : {"absent", "old"}, createOk : BOOLEAN, syncOk : BOOLEAN]

\* Sources of at most one block, sound and damaged, in a valid or an
\* invalid mode, decoded once or with one forced loop.
FileInputs ==
    {in \in ControlInputs \cup WaveInputs :
        in.Loop <= 1 /\ in.chunks[2].blockCount <= 1}

FileInit ==
    /\ \E in \in FileInputs : Configured(in)
    /\ base = <<>>
    /\ pcm = <<>>
    /\ fault = NoFault
    /\ fs \in {f \in Files : f.was = f.dst}
    /\ ret = ""
    /\ history = <<>>
    /\ pipe = NoPipe
    /\ crc = NoCrc
    /\ cli = NoCli
    /\ workers = <<>>
    /\ h = NewDecoder
    /\ Entered
    /\ pc = "open"

\* os.Open(src): DecodeFromFile returns at once when it fails.
OpenSource ==
    /\ pc = "open"
    /\ IF fs.src = "missing"
       THEN /\ ret' = IF api = "Decode" THEN "failed to open source file"
                      ELSE "false"
            /\ pc' = "returned"
       ELSE /\ ret' = ret
            /\ pc' = "create"
    /\ UNCHANGED <<input, base, pcm, fault, fs, history, cli, workers, crc, pipe, h,
                   wav,
                   srcPos, pass, iter, left, trace, result>>

\* os.Create(dst): the file is made, or emptied when it was there; then
\* the decode call starts.
CreateDest ==
    /\ pc = "create"
    /\ IF fs.createOk
       THEN /\ fs' = [fs EXCEPT !.dst = "open"]
            /\ ret' = ret
            /\ pc' = "mode"
       ELSE /\ fs' = fs
            /\ ret' = IF api = "Decode"
                      THEN "failed to create destination file" ELSE "false"
            /\ pc' = "returned"
    /\ UNCHANGED <<input, base, pcm, fault, history, cli, workers, crc, pipe, h,
                   wav,
                   srcPos, pass, iter, left, trace, result>>

\* A tail of DecodeFromFile that closes the file and leaves it in place
\* whatever the decode call returned.
FinishKeep ==
    /\ pc = "done"
    /\ fs' = [fs EXCEPT !.dst = "closed"]
    /\ ret' = IF result = "ok" THEN "ok"
              ELSE IF api = "Decode" THEN "decoding failed" ELSE "false"
    /\ pc' = "returned"
    /\ UNCHANGED <<input, base, pcm, fault, history, cli, workers, crc, pipe, h,
                   wav,
                   srcPos, pass, iter, left, trace, result>>

\* The tail of DecodeFromFile: after a failed decode the file is closed and
\* removed; after a good one it is closed, in part_001 after a Sync whose
\* failure is returned with the file left in place.
Finish ==
    /\ pc = "done"
    /\ IF result # "ok"
       THEN /\ fs' = [fs EXCEPT !.dst = "absent"]
            /\ ret' = IF api = "Decode" THEN "decoding failed" ELSE "false"
       ELSE /\ fs' = [fs EXCEPT !.dst = "closed"]
            /\ ret' = IF api = "Decode" /\ ~fs.syncOk
                      THEN "failed to sync destination file" ELSE "ok"
    /\ pc' = "returned"
    /\ UNCHANGED <<input, base, pcm, fault, history, cli, workers, crc, pipe, h,
                   wav,
                   srcPos, pass, iter, left, trace, result>>

NextFile ==
    \/ OpenSource
    \/ CreateDest
    \/ ValidateMode
    \/ LoadHeader
    \/ SeekDataOffset
    \/ WriteWaveHeader
    \/ BeginPass
    \/ DecodeBlock
    \/ NextPass
    \/ Return
    \/ Finish

SpecFile == FileInit /\ [][NextFile]_vars

\* ------------------------------------------------ calls on one Hca value
\* Calls made on one Hca value.
MaxCalls == 3

\* A comp chunk with r1 = 1, r2 = 14, r5 = 128, r6 = 120, r7 = 0, r8 = 1, for
\* which loadHeader computes r9 = 8.
compChunkR9 ==
    [sig |-> SigBytes(sigCOMP, "high"), blockSize |-> FrameLen,
     buf |-> <<1, 14, 1, 0, 128, 120, 0, 1, 0, 0>>]

\* Hca.Volume as the caller sets it before the first call.
Volumes == {1, 2}

\* Two-block sources with and without a loop chunk, decoded by Decode once
\* or with one forced loop, and two-block sources with an rva chunk or with
\* the comp chunk above, decoded once.
ReuseInputs ==
    { Input("Decode", Mode16Bit, c.l,
            <<hcaChunk("high"), fmtChunk("high", 1, 2), compChunk("high")>>
            \o (IF c.lp THEN <<loopChunk(0, 1)>> ELSE <<>>)
            \o <<padChunk>>,
            dataOf(2, "none", 0), "short") : c \in [l : 0..1, lp : BOOLEAN] }
    \cup
    { Input("Decode", Mode16Bit, 0,
            <<hcaChunk("high"), fmtChunk("high", 1, 2), c[1]>> \o c[2]
            \o <<padChunk>>,
            dataOf(2, "none", 0), "short") :
        c \in {<<compChunk("high"), <<rvaChunk>> >>, <<compChunkR9, <<>> >>} }

ReuseInit ==
    /\ \E in \in ReuseInputs : Configured(in)
    /\ Idle
    /\ \E v \in Volumes : h = [NewDecoder EXCEPT !.Volume = v]
    /\ Entered
    /\ pc = "mode"

\* What a finished call is remembered by: its configuration and source,
\* the WAVE header and the writes it put on the sink, and what it returned.
finishedCall ==
    [in |-> input, wav |-> wav,
     out |-> SelectSeq(trace, LAMBDA e : e.op = "write"), result |-> result]

\* The caller sets Mode and Loop and calls Decode again on the same Hca
\* value with another reader and writer: the fields of h are what the last
\* call left, the locals of Decode are new.
DecodeAgain ==
    /\ pc = "done"
    /\ Len(history) + 1 < MaxCalls
    /\ history' = Append(history, finishedCall)
    /\ \E in \in ReuseInputs :
          /\ api' = in.api
          /\ Mode' = in.Mode
          /\ Loop' = in.Loop
          /\ chunks' = in.chunks
          /\ data' = in.data
          /\ eofRead' = in.eofRead
    /\ wav' = newWaveHeader
    /\ srcPos' = 0
    /\ pass' = "none"
    /\ iter' = 0
    /\ left' = 0
    /\ trace' = <<>>
    /\ result' = ""
    /\ pc' = "mode"
    /\ UNCHANGED <<h, base, pcm, fault, fs, ret, cli, workers, crc, pipe>>

NextReuse ==
    \/ ValidateMode
    \/ LoadHeader
    \/ SeekDataOffset
    \/ WriteWaveHeader
    \/ BeginPass
    \/ DecodeBlock
    \/ NextPass
    \/ Return
    \/ DecodeAgain

SpecReuse == ReuseInit /\ [][NextReuse]_vars

\* ------------------------------------------------------ command-line driver
\* Most input paths on the command line.
MaxFiles == 2

\* What processFile meets at a path: a file that decodes, one that does
\* not ("corrupt": the decode call returns false, or the output directory
\* cannot be made), or a path it returns on before it makes a decoder
\* ("skipped": no file there, or an extension other than .hca).
FileKinds == {"ok", "corrupt", "skipped"}

\* The value of -p and the paths given.
Args ==
    [p : -1..(MaxFiles + 1),
     files : UNION {[1..n -> FileKinds] : n \in 0..MaxFiles}]

CliInit ==
    /\ \E a \in Args :
          /\ cli = [pc |-> "start", p |-> a.p, files |-> a.files,
                    numParallel |-> 0, i |-> 1, wg |-> 0, semaphore |-> 0,
                    decoders |-> 0, exit |-> -1]
          /\ workers = [w \in 1..Len(a.files) |->
                           [pc |-> "none", decoder |-> 0, runs |-> 0,
                            success |-> FALSE]]
    /\ Configured(Input("decodeBuffer", Mode16Bit, 0, <<>>, <<>>, "short"))
    /\ base = <<>>
    /\ pcm = <<>>
    /\ fault = NoFault
    /\ fs = NoFiles
    /\ ret = ""
    /\ history = <<>>
    /\ pipe = NoPipe
    /\ crc = NoCrc
    /\ h = NewDecoder
    /\ Entered
    /\ pc = "cli"

decodeIdle ==
    UNCHANGED <<input, base, pcm, fault, fs, ret, history, pipe, crc, h, wav, pc,
                srcPos,
                pass, iter, left, trace, result>>

\* main up to the for statement: os.Exit(1) without paths, else numParallel
\* from -p, at least 1 and at most the number of paths.
ParseArgs ==
    /\ cli.pc = "start"
    /\ cli' = IF Len(cli.files) = 0
              THEN [cli EXCEPT !.pc = "exited", !.exit = 1]
              ELSE [cli EXCEPT !.pc = "loop",
                               !.numParallel =
                                   Min(IF cli.p <= 0 THEN 1 ELSE cli.p,
                                       Len(cli.files))]
    /\ UNCHANGED workers
    /\ decodeIdle

\* A for statement that starts the goroutine without waiting for a slot.
SpawnUnbounded ==
    /\ cli.pc = "loop"
    /\ cli.i <= Len(cli.files)
    /\ cli' = [cli EXCEPT !.wg = @ + 1, !.semaphore = @ + 1, !.i = @ + 1]
    /\ workers' = [workers EXCEPT ![cli.i].pc = "start"]
    /\ decodeIdle

\* One turn of the for statement: wg.Add(1), the send on semaphore, which
\* waits while numParallel sends are unreceived, and the go statement.
Spawn ==
    /\ cli.pc = "loop"
    /\ cli.i <= Len(cli.files)
    /\ cli.semaphore < cli.numParallel
    /\ cli' = [cli EXCEPT !.wg = @ + 1, !.semaphore = @ + 1, !.i = @ + 1]
    /\ workers' = [workers EXCEPT ![cli.i].pc = "start"]
    /\ decodeIdle

\* wg.Wait() after the for statement, then main returns: exit code 0.
Wait ==
    /\ cli.pc = "loop"
    /\ cli.i > Len(cli.files)
    /\ cli.wg = 0
    /\ cli' = [cli EXCEPT !.pc = "exited", !.exit = 0]
    /\ UNCHANGED workers
    /\ decodeIdle

\* processFile up to the decode call: it returns at once for a path it
\* skips, else it makes a decoder of its own.
ProcessFile(w) ==
    /\ workers[w].pc = "start"
    /\ IF cli.files[w] = "skipped"
       THEN /\ workers' = [workers EXCEPT ![w].pc = "processed",
                                          ![w].runs = @ + 1]
            /\ cli' = cli
       ELSE /\ workers' = [workers EXCEPT ![w].pc = "decoding",
                                          ![w].runs = @ + 1,
                                          ![w].decoder = cli.decoders + 1]
            /\ cli' = [cli EXCEPT !.decoders = @ + 1]
    /\ decodeIdle

\* decoder.DecodeFromFile and the log line for its result.
DecodeFile(w) ==
    /\ workers[w].pc = "decoding"
    /\ workers' = [workers EXCEPT ![w].pc = "processed",
                                  ![w].success = (cli.files[w] = "ok")]
    /\ cli' = cli
    /\ decodeIdle

\* A goroutine that gives its slot back only after a decode call.
ReleaseAfterDecode(w) ==
    /\ workers[w].pc = "processed"
    /\ workers[w].decoder # 0
    /\ workers' = [workers EXCEPT ![w].pc = "released"]
    /\ cli' = [cli EXCEPT !.semaphore = @ - 1]
    /\ decodeIdle

\* The deferred receive from semaphore, run when processFile has returned.
Release(w) ==
    /\ workers[w].pc = "processed"
    /\ workers' = [workers EXCEPT ![w].pc = "released"]
    /\ cli' = [cli EXCEPT !.semaphore = @ - 1]
    /\ decodeIdle

\* The deferred wg.Done(), run after the receive.
Done(w) ==
    /\ workers[w].pc = "released"
    /\ workers' = [workers EXCEPT ![w].pc = "done"]
    /\ cli' = [cli EXCEPT !.wg = @ - 1]
    /\ decodeIdle

NextCLI ==
    \/ ParseArgs
    \/ Spawn
    \/ Wait
    \/ \E w \in 1..Len(workers) : ProcessFile(w)
    \/ \E w \in 1..Len(workers) : DecodeFile(w)
    \/ \E w \in 1..Len(workers) : Release(w)
    \/ \E w \in 1..Len(workers) : Done(w)

SpecCLI == CliInit /\ [][NextCLI]_vars

\* The scheduler runs a goroutine that can run: main and the goroutines it
\* started keep taking steps while one of them is able to.
SpecCLIFair == SpecCLI /\ WF_vars(NextCLI)

Next ==
    \/ ValidateMode
    \/ LoadHeader
    \/ SeekDataOffset
    \/ WriteWaveHeader
    \/ BeginPass
    \/ DecodeBlock
    \/ NextPass
    \/ Return

Spec == Init /\ [][Next]_vars

\* ------------------------------------------------- optional chunks, any order
\* Most optional chunks of a generated header.
MaxOpt == 3

\* The optional chunk of each kind, with a value other than its default
\* (ath: type 1 at version 0x200; ciph: type ct).
optChunk(kind, ct) ==
    IF kind = "vbr" THEN vbrChunk
    ELSE IF kind = "ath" THEN athChunk(1)
    ELSE IF kind = "loop" THEN loopChunk(0, 1)
    ELSE IF kind = "ciph" THEN ciphChunk(ct)
    ELSE IF kind = "rva" THEN rvaChunk
    ELSE commChunk(1)

\* Headers whose optional chunks are up to MaxOpt different kinds in every
\* order, decoded once or with one forced loop.  A stream with cipher
\* type 1 carries no blocks and no loop chunk; the others carry two blocks.
OrderInputs ==
    LET orders == {o \in UNION {[1..n -> OptKinds] : n \in 0..MaxOpt} :
                      \A i, j \in DOMAIN o : i # j => o[i] # o[j]}
        bc(ct) == IF ct = 1 THEN 0 ELSE 2
    IN  { Input(c.a, Mode16Bit, c.l,
                <<hcaChunk("high"), fmtChunk("high", 1, bc(c.ct)),
                  compChunk("high")>>
                \o [i \in DOMAIN c.o |-> optChunk(c.o[i], c.ct)]
                \o <<padChunk>>,
                dataOf(bc(c.ct), "none", 0), "short") :
            c \in {x \in [a : APIs, l : 0..1, o : orders, ct : {0, 1}] :
                      x.ct = 1 => (\E i \in DOMAIN x.o : x.o[i] = "ciph")
                                  /\ (\A i \in DOMAIN x.o : x.o[i] # "loop")} }

OrderInit ==
    /\ \E in \in OrderInputs : Configured(in)
    /\ Idle
    /\ h = NewDecoder
    /\ Entered
    /\ pc = "mode"

SpecOrder == OrderInit /\ [][Next]_vars

\* ----------------------------------------------------- dec chunk, its bytes
\* The six parameter bytes of a dec chunk: each position takes its smallest
\* and its largest value and the values at which decHeaderRead branches.
DecBufs ==
    {<<b.r1, b.r2, b.n5, b.n6, b.nib, b.sel>> :
        b \in [r1 : {0, 1, 31}, r2 : {15, 31, 32}, n5 : {0, 127, 255},
               n6 : {0, 128, 255}, nib : {0, 16, 90, 255}, sel : {0, 1, 255}]}

\* Streams of two blocks whose third chunk is a dec chunk with these bytes,
\* decoded once or with one forced loop.
DecInputs ==
    { Input(c.a, Mode16Bit, c.l,
            <<hcaChunk("high"), fmtChunk("high", 1, 2),
              [sig |-> SigBytes(sigDEC, "high"), blockSize |-> FrameLen,
               buf |-> c.b],
              padChunk>>,
            dataOf(2, "none", 0), "short") :
        c \in [a : APIs, l : 0..1, b : DecBufs] }

DecInit ==
    /\ \E in \in DecInputs : Configured(in)
    /\ Idle
    /\ h = NewDecoder
    /\ Entered
    /\ pc = "mode"

SpecDec == DecInit /\ [][Next]_vars

\* ---------------------------------------------------- comp chunk, its bytes
\* The parameter bytes of a comp chunk: r1/r2 pairs that pass the range test
\* (1/15 and others), r3 zero or not, and r5..r8 with r8 zero or not and
\* r6 + r7 below, at and above r5.
CompBufs ==
    {<<b.r[1], b.r[2], b.r3, 0, b.r5, b.r6, b.r7, b.r8, 0, 0>> :
        b \in [r : {<<1, 15>>, <<0, 15>>, <<1, 31>>, <<31, 31>>},
               r3 : {0, 1}, r5 : {0, 128}, r6 : {0, 120, 128},
               r7 : {0, 8, 9}, r8 : {0, 1, 3}]}

\* Streams of two blocks whose third chunk is a comp chunk with these
\* bytes, decoded once or with one forced loop.
CompInputs ==
    { Input(c.a, Mode16Bit, c.l,
            <<hcaChunk("high"), fmtChunk("high", 1, 2),
              [sig |-> SigBytes(sigCOMP, "high"), blockSize |-> FrameLen,
               buf |-> c.b],
              padChunk>>,
            dataOf(2, "none", 0), "short") :
        c \in [a : APIs, l : 0..1, b : CompBufs] }

CompInit ==
    /\ \E in \in CompInputs : Configured(in)
    /\ Idle
    /\ h = NewDecoder
    /\ Entered
    /\ pc = "mode"

SpecComp == CompInit /\ [][Next]_vars

\* ------------------------------------------------- buildWaveHeader, smpl
\* Hca values with a loop chunk read (loopFlg set), as the parser of part_001
\* leaves them: one or two channels, three sampling rates, loop ranges
\* within four blocks, and loopR01 zero, a count and 0x80.
SmplInputs ==
    { Input(c.a, c.m, 0,
            <<hcaChunk("high"),
              [sig |-> SigBytes(sigFMT, "high"), raw |-> <<c.ch>> \o c.rate,
               blockCount |-> 4, r01 |-> 0, r02 |-> 0],
              compChunk("high"),
              [sig |-> SigBytes(sigLOOP, "high"), loopStart |-> c.lp[1],
               loopEnd |-> c.lp[2], r01 |-> c.r01, r02 |-> 1024],
              padChunk>>,
            <<>>, "short") :
        c \in [a : APIs, m : {ModeFloat, Mode8Bit, Mode16Bit}, ch : {1, 2},
               rate : {<<0, 0, 3>>, <<0, 31, 64>>, <<0, 172, 68>>},
               lp : {<<0, 0>>, <<0, 3>>, <<1, 2>>}, r01 : {0, 2, 128}] }

SmplInit ==
    /\ \E in \in SmplInputs : Configured(in)
    /\ Idle
    /\ h = loadHeader(NewDecoder, chunks).h
    /\ Entered
    /\ pc = "build"

\* h.buildWaveHeader() of part_001 (api Decode) and of part_002.
BuildWaveHeader ==
    /\ pc = "build"
    /\ wav' = IF api = "Decode" THEN buildWaveHeader(h, Mode, Loop)
              ELSE buildWaveHeaderBool(h, Mode, Loop)
    /\ pc' = "built"
    /\ UNCHANGED <<input, outer, h, srcPos, pass, iter, left, trace, result>>

SpecSmpl == SmplInit /\ [][BuildWaveHeader]_vars

\* ---------------------------------------------------------------- checkSum
\* checkSum and the checksum test of decode on byte sequences: crc.a and
\* crc.b are two pieces of a payload, crc.seed the sum handed in; the step
\* CheckSumCalls makes the calls on the pieces, SealFrame puts two trailer
\* bytes behind the payload and hands the frame to checkSum and to decode.

\* Longest piece of a payload.
MaxCrcLen == 2

\* Byte values of the payloads: all bits clear, one bit, all bits set.
CrcBytes == {0, 1, 255}

\* Seeds: 0, one bit, the polynomial 0x8005 and all bits set.
CrcSeeds == {0, 1, 32773, 65535}

CrcPieces == UNION {[1..n -> CrcBytes] : n \in 0..MaxCrcLen}

CrcInit ==
    /\ Configured(Input("Decode", Mode16Bit, 0, <<>>, <<>>, "short"))
    /\ base = <<>>
    /\ pcm = <<>>
    /\ fault = NoFault
    /\ fs = NoFiles
    /\ ret = ""
    /\ history = <<>>
    /\ cli = NoCli
    /\ workers = <<>>
    /\ pipe = NoPipe
    /\ \E a \in CrcPieces, b \in CrcPieces, s \in CrcSeeds :
          crc = [pc |-> "args", a |-> a, b |-> b, seed |-> s]
    /\ h = NewDecoder
    /\ Entered
    /\ pc = "crc"

\* The sum as the two bytes a frame carries it in, high byte first.
BE16(c) == <<c \div 256, c % 256>>

\* checkSum on the whole payload, on its first piece, and on the second
\* piece with the first piece's sum as seed; and on the empty sequence.
CheckSumCalls ==
    /\ crc.pc = "args"
    /\ crc' = [pc |-> "summed", a |-> crc.a, b |-> crc.b, seed |-> crc.seed,
               whole |-> checkSum(crc.a \o crc.b, crc.seed),
               first |-> checkSum(crc.a, crc.seed),
               second |-> checkSum(crc.b, checkSum(crc.a, crc.seed)),
               empty |-> checkSum(<<>>, crc.seed)]
    /\ UNCHANGED <<input, base, pcm, fault, fs, ret, history, cli, workers,
                   pipe, h, wav, pc, srcPos, pass, iter, left, trace, result>>

\* A frame is made of the payload and two trailer bytes: checkSum(payload,
\* 0), or that value with one bit changed, or zero; decode is called on the
\* frame with blockSize the frame's length.
SealFrame ==
    /\ crc.pc = "summed"
    /\ LET payload == crc.a \o crc.b
           sum == checkSum(payload, 0)
       IN  \E t \in {sum, BitXor(sum, 1), BitXor(sum, 32768), 0} :
              LET frame == payload \o BE16(t)
                  hh == [NewDecoder EXCEPT !.blockSize = Len(frame)]
              IN  crc' = [pc |-> "sealed", a |-> crc.a, b |-> crc.b,
                          seed |-> crc.seed, payloadSum |-> sum,
                          trailer |-> t, frame |-> frame,
                          frameSum |-> checkSum(frame, 0),
                          err |-> decode(hh, frame).err]
    /\ UNCHANGED <<input, base, pcm, fault, fs, ret, history, cli, workers,
                   pipe, h, wav, pc, srcPos, pass, iter, left, trace, result>>

NextCrc ==
    \/ CheckSumCalls
    \/ SealFrame

SpecCrc == CrcInit /\ [][NextCrc]_vars

\* ------------------------------------------------------------------ Decoder
\* Hca.Decoder (part_002:64-82, decoder.go:38-52): the decode runs in a
\* goroutine that writes to an io.Pipe, the caller gets the read end.
\* pipe.seeker says whether the reader handed in is an io.ReadSeeker, go is
\* the goroutine ("none", "running", "exited"), taken counts the writes the
\* consumer has read, wclosed / rclosed say which ends are closed, werr is
\* the error the write end was closed with, reader is what the consumer
\* has met ("reading", "eof", "error", "closed"), plan is the number of
\* reads after which the consumer closes the read end (-1: it reads on
\* until Read returns an error).

\* Most blocks of a source decoded through Decoder.
MaxPipeBlocks == 2

\* Sources for Decoder: a mode the switch rejects, a header with a junk
\* signature, and streams of up to MaxPipeBlocks blocks, sound or with one
\* damaged or missing block, decoded once or with one forced loop.
PipeInputs ==
    { Input("decodeBuffer", c.m, c.l,
            <<hcaChunk(c.f), fmtChunk("high", 1, c.bc), compChunk("high"),
              padChunk>>,
            dataOf(c.bc, c.d[1], c.d[2]), c.e) :
        c \in {x \in [m : {Mode16Bit, 12}, l : 0..1, f : {"high", "junk"},
                      bc : 0..MaxPipeBlocks, d : Defects(MaxPipeBlocks),
                      e : EofReads] :
                  /\ x.d[1] = "none" \/ x.d[2] < x.bc
                  /\ x.e # "short" => x.d[1] \in {"cutAt", "cutIn"}
                  /\ x.m = 12 => (x.bc = 0 /\ x.l = 0 /\ x.f = "high")
                  /\ x.f = "junk" => (x.bc = 0 /\ x.l = 0)} }

\* What the consumer does with the reader: read to the end, or close it
\* after none, one or two reads.
ConsumerPlans == {-1, 0, 1, 2}

PipeInit ==
    /\ \E in \in PipeInputs : Configured(in)
    /\ base = <<>>
    /\ pcm = <<>>
    /\ fault = NoFault
    /\ fs = NoFiles
    /\ ret = ""
    /\ history = <<>>
    /\ cli = NoCli
    /\ workers = <<>>
    /\ crc = NoCrc
    /\ \E s \in BOOLEAN, p \in ConsumerPlans :
          pipe = [seeker |-> s, go |-> "none", taken |-> 0, wclosed |-> FALSE,
                  werr |-> "", rclosed |-> FALSE, reader |-> "none",
                  plan |-> p]
    /\ h = NewDecoder
    /\ Entered
    /\ pc = "decoder"

\* Decoder up to its return: the type assertion, io.Pipe() and the go
\* statement.
DecoderCall ==
    /\ pc = "decoder"
    /\ IF ~pipe.seeker
       THEN /\ ret' = "reader is not a ReadSeeker"
            /\ pc' = "unused"
            /\ pipe' = pipe
       ELSE /\ ret' = "pipe"
            /\ pc' = "mode"
            /\ pipe' = [pipe EXCEPT !.go = "running", !.reader = "reading"]
    /\ UNCHANGED <<input, base, pcm, fault, fs, history, cli, workers, crc, h, wav,
                   srcPos, pass, iter, left, trace, result>>

\* Writes the goroutine has made on the write end.
pipeWrites == SelectSeq(trace, LAMBDA e : e.op = "write")

\* pw.Write has returned for every write made: the consumer has read the
\* bytes, or the read end is closed (the write fails with ErrClosedPipe,
\* which NeoWrite and save drop).
drained == pipe.taken = Len(pipeWrites) \/ pipe.rclosed

\* The goroutine inside DecodeWithWriter: a step of decodeBuffer, taken
\* when the write before it has returned.
InGoroutine(step) ==
    /\ pipe.go = "running"
    /\ drained
    /\ step

\* A goroutine whose deferred close runs only when the decode succeeded.
ClosePipeOnSuccess ==
    /\ pipe.go = "running"
    /\ pc = "done"
    /\ drained
    /\ pipe' = [pipe EXCEPT !.go = "exited", !.wclosed = (result = "ok")]
    /\ UNCHANGED <<input, base, pcm, fault, fs, ret, history, cli, workers, crc, h,
                   wav, pc, srcPos, pass, iter, left, trace, result>>

\* DecodeWithWriter has returned: the error, if any, is dropped (printed in
\* decoder.go), the deferred pw.Close() runs and the goroutine ends.
ClosePipe ==
    /\ pipe.go = "running"
    /\ pc = "done"
    /\ drained
    /\ pipe' = [pipe EXCEPT !.go = "exited", !.wclosed = TRUE]
    /\ UNCHANGED <<input, base, pcm, fault, fs, ret, history, cli, workers, crc, h,
                   wav, pc, srcPos, pass, iter, left, trace, result>>

\* The consumer calls Read on the read end: it gets the next write's bytes,
\* or, when the write end is closed and nothing is left, io.EOF (the error
\* of CloseWithError, had the write end been closed with one); otherwise
\* Read blocks.
ConsumerRead ==
    /\ pipe.reader = "reading"
    /\ pipe.plan # pipe.taken
    /\ IF pipe.taken < Len(pipeWrites)
       THEN pipe' = [pipe EXCEPT !.taken = pipe.taken + 1]
       ELSE /\ pipe.wclosed
            /\ pipe' = [pipe EXCEPT
                           !.reader = IF pipe.werr = "" THEN "eof"
                                      ELSE "error"]
    /\ UNCHANGED <<input, base, pcm, fault, fs, ret, history, cli, workers, crc, h,
                   wav, pc, srcPos, pass, iter, left, trace, result>>

\* The consumer closes the read end (the value returned is a
\* *io.PipeReader) instead of reading on.
ConsumerClose ==
    /\ pipe.reader = "reading"
    /\ pipe.plan = pipe.taken
    /\ pipe' = [pipe EXCEPT !.rclosed = TRUE, !.reader = "closed"]
    /\ UNCHANGED <<input, base, pcm, fault, fs, ret, history, cli, workers, crc, h,
                   wav, pc, srcPos, pass, iter, left, trace, result>>

GoroutineStep ==
    \/ InGoroutine(ValidateMode)
    \/ InGoroutine(LoadHeader)
    \/ InGoroutine(SeekDataOffset)
    \/ InGoroutine(WriteWaveHeader)
    \/ InGoroutine(BeginPass)
    \/ InGoroutine(DecodeBlock)
    \/ InGoroutine(NextPass)
    \/ InGoroutine(Return)
    \/ ClosePipe

NextPipe ==
    \/ DecoderCall
    \/ GoroutineStep
    \/ ConsumerRead
    \/ ConsumerClose

SpecPipe == PipeInit /\ [][NextPipe]_vars

\* The caller calls Decoder, the scheduler runs the goroutine whenever it
\* can take a step, and the consumer follows its plan: no step that can be
\* taken is put off for ever.
SpecPipeFair == SpecPipe /\ WF_vars(NextPipe)

\* ---------------------------------------------------------------- properties
\* Projections of the trace.
Sel(op) == SelectSeq(trace, LAMBDA e : e.op = op)

Writes == Sel("write")

PcmWrites == SelectSeq(trace, LAMBDA e : e.what = "pcm")

Reads == Sel("read")

Decodes == Sel("decode")

Frames(es) == [i \in 1..Len(es) |-> es[i].frame]

RECURSIVE SumN(_)
SumN(es) == IF es = <<>> THEN 0 ELSE Head(es).n + SumN(Tail(es))

IsPrefix(a, b) == Len(a) <= Len(b) /\ a = SubSeq(b, 1, Len(a))

\* The frame indices a to b - 1.
Range(a, b) == IF b > a THEN [i \in 1..(b - a) |-> a + i - 1] ELSE <<>>

RECURSIVE Repeat(_, _)
Repeat(q, n) == IF n <= 0 THEN <<>> ELSE q \o Repeat(q, n - 1)

\* The loop chunk of the source, if it has one.
LoopChunks == {i \in 1..Len(chunks) : Masked(chunks[i].sig) = sigLOOP}

hasLoopChunk == LoopChunks # {}

chunkLoopStart ==
    IF hasLoopChunk THEN chunks[CHOOSE i \in LoopChunks : TRUE].loopStart
    ELSE 0

chunkLoopEnd ==
    IF hasLoopChunk THEN chunks[CHOOSE i \in LoopChunks : TRUE].loopEnd
    ELSE 0

\* The header parse returned without error.
parsed == \E i \in 1..Len(trace) :
              trace[i].op = "header" /\ trace[i].what = ""

\* The run ended with an error.
failed == pc = "done" /\ result \notin {"", "ok"}

\* The bytes of the source a read event covered.
blockRead(e) ==
    SubSeq(data, e.addr - h.dataOffset + 1, e.addr - h.dataOffset + e.n)

\* C1: a successful Decode decodes blockCount + (loopEnd - loopStart) *
\* max(0, Loop - 1) frames in all, and writes 1024 * channelCount samples for
\* each of them after the WAVE header.
C1_TotalFrames ==
    (api = "Decode" /\ result = "ok") =>
        LET totalFrames == h.blockCount
                           + (h.loopEnd - h.loopStart) * Max(0, Loop - 1)
        IN  /\ Len(Decodes) = totalFrames
            /\ SumN(PcmWrites) = SamplesPerBlock * h.channelCount
                                 * totalFrames * sampleBytes(Mode)

\* The frame sequence the frame loop is described to follow.
ExpectedFrames(bc, ls, le, l) ==
    IF l = 0 THEN Range(0, bc)
    ELSE Range(0, le) \o Repeat(Range(ls, le), l - 1) \o Range(ls, bc)

\* The first frame of every pass of that sequence.
ExpectedFirst(ls, l) ==
    IF l = 0 THEN <<0>> ELSE <<0>> \o Repeat(<<ls>>, l - 1) \o <<ls>>

\* The seeks that start a pass.
PassSeeks == SelectSeq(trace, LAMBDA e : e.op = "seek" /\ e.what # "")

\* The last seek or read before trace position i.
PrevSource(i) ==
    LET js == {j \in 1..(i - 1) : trace[j].op \in {"seek", "read"}}
    IN  trace[CHOOSE j \in js : \A k \in js : k <= j]

\* C2: Decode decodes frames 0..blockCount-1 once each when Loop = 0, and
\* with Loop > 0 the frames [0, loopEnd), then [loopStart, loopEnd) Loop - 1
\* times, then [loopStart, blockCount); every pass starts with a seek to
\* dataOffset + firstFrame * blockSize and reads its frames consecutively.
C2_FrameSequence ==
    api = "Decode" =>
        LET want == ExpectedFrames(h.blockCount, chunkLoopStart,
                                   chunkLoopEnd, Loop)
            first == ExpectedFirst(chunkLoopStart, Loop)
        IN  /\ IsPrefix(Frames(Decodes), want)
            /\ result = "ok" => Frames(Decodes) = want
            /\ IsPrefix([i \in 1..Len(PassSeeks) |-> PassSeeks[i].addr],
                        [i \in 1..Len(first) |->
                            h.dataOffset + first[i] * h.blockSize])
            /\ result = "ok" => Len(PassSeeks) = Len(first)
            /\ \A i \in 1..Len(trace) :
                  trace[i].op = "read" =>
                      /\ trace[i].addr =
                            IF PrevSource(i).op = "seek"
                            THEN PrevSource(i).addr
                            ELSE PrevSource(i).addr + h.blockSize
                      /\ trace[i].addr =
                            h.dataOffset + trace[i].frame * h.blockSize

\* A forced loop of two rounds over a loop range inside the stream has run
\* to its end.
C2_Witness ==
    /\ api = "Decode"
    /\ result = "ok"
    /\ Loop = 2
    /\ 0 < h.loopStart /\ h.loopStart < h.loopEnd
    /\ Frames(Decodes) = <<0, 1, 1, 1, 2>>

\* C3: nothing is written to the sink before the header has been parsed
\* successfully; the WAVE header is written once, before the first frame is
\* read; every later write is the PCM of a decoded frame, in decoding order
\* (each PCM write directly follows the read and the decoding of its frame).
C3_SinkOrder ==
    \A i \in 1..Len(trace) :
        /\ trace[i].op = "write" =>
              \E j \in 1..(i - 1) :
                  trace[j].op = "header" /\ trace[j].what = ""
        /\ trace[i].op = "read" =>
              \E j \in 1..(i - 1) :
                  /\ SubSeq(trace, j, j + Len(headerWrites(wav)) - 1)
                        = headerWrites(wav)
                  /\ j + Len(headerWrites(wav)) - 1 < i
        /\ (trace[i].op = "write" /\ trace[i].what # "pcm") =>
              /\ \A j \in 1..(i - 1) : trace[j].op # "read"
              /\ \A j \in 1..Len(trace) :
                    (j # i /\ trace[j].op = "write")
                        => trace[j].what # trace[i].what
        /\ trace[i].what = "pcm" =>
              /\ i > 2
              /\ trace[i - 1].op = "decode"
              /\ trace[i - 1].frame = trace[i].frame
              /\ trace[i - 2].op = "read"
              /\ trace[i - 2].frame = trace[i].frame

\* C4: after a successful Decode the dataSize field of the data chunk equals
\* the PCM bytes written to the sink after the WAVE header.
C4_DataSize ==
    result = "ok" => wav.dataSize = SumN(PcmWrites)

\* C5: after a successful Decode the riffSize field equals the bytes written
\* to the sink minus 8, with and without smpl and note chunks.
C5_RiffSize ==
    result = "ok" => wav.riffSize = SumN(Writes) - 8

\* C6: the smpl chunk is written if and only if the header has a loop chunk
\* and Loop = 0.
C6_SmplChunk ==
    (\E i \in 1..Len(trace) : trace[i].what = "data") =>
        ((\E i \in 1..Len(trace) : trace[i].what = "smpl")
            <=> (hasLoopChunk /\ Loop = 0))

\* A whole block whose CRC-16 with seed 0 is not zero was read at trace
\* position i.
CrcMismatchAt(i) ==
    /\ trace[i].op = "read"
    /\ trace[i].n = h.blockSize
    /\ checkSum(blockRead(trace[i]), 0) # 0

\* C7: when the CRC-16 of the k-th frame read is not zero, Decode returns an
\* error, reads nothing more and writes no PCM for that frame or a later
\* one: the sink holds the WAVE header and the PCM of the k frames before.
C7_CrcMismatchStops ==
    api = "Decode" =>
        \A i \in 1..Len(trace) :
            CrcMismatchAt(i) =>
                /\ i = Len(trace)
                /\ failed
                /\ LET before == SelectSeq(SubSeq(trace, 1, i - 1),
                                           LAMBDA e : e.op = "read")
                   IN  Writes = headerWrites(wav)
                                \o [j \in 1..Len(before) |->
                                      Ev("write", "pcm", 0, save(h, Mode),
                                         before[j].frame)]

\* Decode met a CRC mismatch after it had written the PCM of two frames.
C7_Witness ==
    /\ api = "Decode"
    /\ trace # <<>>
    /\ CrcMismatchAt(Len(trace))
    /\ Len(PcmWrites) = 2

\* A whole block with a sound CRC whose first 16 bits are not 0xFFFF was
\* read at trace position i.
SyncMismatchAt(i) ==
    /\ trace[i].op = "read"
    /\ trace[i].n = h.blockSize
    /\ checkSum(blockRead(trace[i]), 0) = 0
    /\ GetBit16(Mask(h.ciphType, blockRead(trace[i]))) # 65535

\* C8: a frame that passes the CRC check but does not start with 0xFFFF
\* fails with an error, the decode stops, and no PCM is written for it.
C8_SyncMismatchStops ==
    \A i \in 1..Len(trace) :
        SyncMismatchAt(i) =>
            /\ i = Len(trace)
            /\ failed

\* C9: when the source ends before a whole block can be read, the decode
\* returns an error: no partial or empty frame is decoded and the run does
\* not succeed with fewer frames than planned.
C9_ShortReadFails ==
    \A i \in 1..Len(trace) :
        (trace[i].op = "read" /\ trace[i].n < h.blockSize) =>
            /\ i = Len(trace)
            /\ failed

\* The i-th chunk of the source carries, under the mask, one of sigs.
sigOk(i, sigs) == i <= Len(chunks) /\ Masked(chunks[i].sig) \in sigs

mandatoryOk ==
    /\ sigOk(1, {sigHCA})
    /\ sigOk(2, {sigFMT})
    /\ sigOk(3, {sigCOMP, sigDEC})

\* The chunks of the source with signature sig under the mask.
chunksOf(sig) == {i \in 1..Len(chunks) : Masked(chunks[i].sig) = sig}

\* The header of the source has its mandatory chunks and breaks one of the
\* ranges.
outOfRange ==
    /\ mandatoryOk
    /\ \/ chunks[2].raw[1] \notin 1..16
       \/ (chunks[2].raw[2] * 256 + chunks[2].raw[3]) * 256
            + chunks[2].raw[4] \notin 1..8388607
       \/ ~(chunks[3].blockSize = 0 \/ chunks[3].blockSize \in 8..65535)
       \/ ~(chunks[3].buf[1] <= chunks[3].buf[2] /\ chunks[3].buf[2] <= 31)
       \/ \E i \in chunksOf(sigCIPH) : chunks[i].type \notin {0, 1, 56}
       \/ \E i \in chunksOf(sigLOOP) :
             ~(chunks[i].loopStart <= chunks[i].loopEnd
               /\ chunks[i].loopEnd < chunks[2].blockCount)

\* C10: the header parse succeeds only if the stream starts with HCA, fmt
\* and then comp or dec, compared under the mask 0x7F7F7F7F; any other
\* first, second or third signature ends the parse with an error, and a
\* signature with its high bits set is accepted (a stream that is sound
\* apart from its signatures, with every field in range and the comp
\* parameters 1 and 15 that both parsers take, then parses).
C10_MandatoryChunks ==
    \A i \in 1..Len(trace) :
        trace[i].op = "header" =>
            /\ trace[i].what = "" => mandatoryOk
            /\ ~mandatoryOk => (trace[i].what # "" /\ failed)
            /\ (/\ mandatoryOk
                /\ Len(chunks) > 3
                /\ ~outOfRange
                /\ chunks[3].buf[1] = 1
                /\ chunks[3].buf[2] = 15) => trace[i].what = ""

\* A stream whose three mandatory signatures all have their high bits set
\* has been parsed.
C10_Witness ==
    /\ parsed
    /\ \A i \in 1..3 : \A j \in 1..3 : chunks[i].sig[j] >= 128


\* No chunk of the source carries, under the mask, the signature sig.
absent(sig) == \A i \in 1..Len(chunks) : Masked(chunks[i].sig) # sig

\* C11: after a successful parse every optional chunk absent from the
\* header has left its default: vbr r1 = r2 = 0; ATH type 0 from version
\* 0x200 on and 1 below; loopFlg false; cipher type 0; rvaVolume 1.0;
\* comment length 0 and empty text.
C11_OptionalDefaults ==
    parsed =>
        /\ absent(sigVBR) => (h.vbrR01 = 0 /\ h.vbrR02 = 0)
        /\ absent(sigATH) =>
              h.athType = (IF chunks[1].version >= 512 THEN 0 ELSE 1)
        /\ absent(sigLOOP) => ~h.loopFlg
        /\ absent(sigCIPH) => h.ciphType = 0
        /\ absent(sigRVA) => h.rvaVolume = 100
        /\ absent(sigCOMM) => (h.commLen = 0 /\ h.commComment = <<>>)

\* A stream of a version below 0x200 with no optional chunk at all has been
\* parsed.
C11_Witness ==
    /\ parsed
    /\ chunks[1].version < 512
    /\ \A sig \in {sigVBR, sigATH, sigLOOP, sigCIPH, sigRVA, sigCOMM} :
          absent(sig)
    /\ h.athType = 1


\* C12: after a successful header parse channelCount is in 1..16,
\* samplingRate in 1..0x7FFFFF, blockSize 0 or in 8..0xFFFF, r1 <= r2 <=
\* 0x1F, the cipher type 0, 1 or 0x38 and, with a loop chunk, loopStart <=
\* loopEnd < blockCount; a header that breaks one of these fails to parse.
C12_HeaderRanges ==
    /\ pc = "seek" =>
          /\ h.channelCount \in 1..16
          /\ h.samplingRate \in 1..8388607
          /\ h.blockSize = 0 \/ h.blockSize \in 8..65535
          /\ h.compR01 <= h.compR02 /\ h.compR02 <= 31
          /\ h.ciphType \in {0, 1, 56}
          /\ ~absent(sigLOOP) =>
                (h.loopStart <= h.loopEnd /\ h.loopEnd < h.blockCount)
    /\ \A i \in 1..Len(trace) :
          (trace[i].op = "header" /\ outOfRange) =>
              (trace[i].what # "" /\ failed)

\* A header whose loop range runs to blockCount has been refused.
C12_Witness ==
    /\ outOfRange
    /\ failed
    /\ \E i \in chunksOf(sigLOOP) :
          chunks[i].loopEnd = chunks[2].blockCount


\* C13: when Mode is not one of 0, 8, 16, 24, 32 the call returns an error
\* before any access to the source (no header parse, seek or read) and
\* before any write to the sink: once the mode test has run the call is
\* finished with a failure and its event log is empty.
C13_InvalidMode ==
    Mode \notin {0, 8, 16, 24, 32} =>
        /\ trace = <<>>
        /\ srcPos = 0
        /\ pc \in {"mode", "done"}
        /\ pc = "done" => failed

\* An invalid mode has been rejected.
C13_Witness == Mode = 12 /\ failed /\ trace = <<>> /\ Loop >= 0


\* Channel count and sampling rate as the stream's fmt chunk carries them.
chunkChannels == chunks[2].raw[1]

chunkRate == chunks[2].raw[2] * 65536 + chunks[2].raw[3] * 256 + chunks[2].raw[4]

\* The bytes of the riff chunk writer add up to the size of its write event.
riffWidth == SumN(riffWrite(wav))

\* C16: in the fmt chunk written to the sink, fmtType is 1 for modes
\* 8/16/24/32 and 3 for mode 0, bitCount is the mode (32 for mode 0),
\* blockAlign is bitCount/8 x channelCount, avgBytesPerSec is samplingRate x
\* blockAlign, and after the fmt size the fields go out in the standard
\* order type, channels, sampling rate, avgBytesPerSec, blockAlign, bitCount.
C16_FmtFields ==
    (\E i \in 1..Len(trace) : trace[i].op = "write" /\ trace[i].what = "riff")
    => LET bits == IF Mode = 0 THEN 32 ELSE Mode
           align == (bits \div 8) * chunkChannels
       IN  /\ riffWidth = riffBytes
           /\ SubSeq(riffWrite(wav), 6, 11) =
                <<Field("fmtType", 2, IF Mode = 0 THEN 3 ELSE 1),
                  Field("fmtChannelCount", 2, chunkChannels),
                  Field("fmtSamplingRate", 4, chunkRate),
                  Field("fmtSamplesPerSec", 4, chunkRate * align),
                  Field("fmtSamplingSize", 2, align),
                  Field("fmtBitCount", 2, bits)>>

\* A float header for a two-channel stream has been written.
C16_Witness ==
    /\ Mode = 0
    /\ chunkChannels = 2
    /\ \E i \in 1..Len(trace) : trace[i].op = "write" /\ trace[i].what = "riff"
    /\ wav.fmtType = 3
    /\ wav.fmtSamplingSize = 8


\* The exact product x * K rounded down and rounded up.
floorMul(q, K) == (q * K) \div 4

ceilMul(q, K) == -((-(q * K)) \div 4)

\* The exact product x * K rounded to the nearest integer.
nearestMul(q, K) == Sgn(q) * ((2 * Abs(q) * K + 4) \div 8)

\* The little-endian 24-bit value of three bytes.
int24(b) ==
    LET u == b[1] + 256 * b[2] + 65536 * b[3]
    IN  IF u >= 8388608 THEN u - 16777216 ELSE u

\* The saturated values of sample q in each integer mode; where no rounding
\* is named either neighbour of the exact product is taken as right, and in
\* mode 32 so is the product formed in single precision.
saturated(m, q) ==
    IF m = Mode8Bit THEN
        IF q >= 8 THEN {255} ELSE IF q <= -8 THEN {0}
        ELSE {Clip(nearestMul(q, 127) + 128, 0, 255)}
    ELSE IF m = Mode16Bit THEN
        IF q >= 4 THEN {32767} ELSE IF q <= -5 THEN {-32768}
        ELSE {floorMul(q, 32767), ceilMul(q, 32767)}
    ELSE IF m = Mode24Bit THEN
        IF q >= 4 THEN {8388607} ELSE IF q <= -5 THEN {-8388608}
        ELSE {floorMul(q, 8388607), ceilMul(q, 8388607)}
    ELSE
        IF q >= 4 THEN {Int32Max} ELSE IF q <= -5 THEN {Int32Min}
        ELSE IF q = -4 THEN {-Int32Max, Int32Min}
        ELSE {q * 536870911 + (3 * q) \div 4,
              q * 536870911 - ((-3 * q) \div 4), q * 536870912}

\* The integer value of a saved sample.
savedValue(m, s) == IF m = Mode24Bit THEN int24(s) ELSE s

\* C17: for every sample and every integer mode the saved sample is the
\* saturated value of the mode: mode 8 clip(round(x*127)+128, 0, 255), mode
\* 16 clip(x*32767, -32768, 32767), mode 24 clip(x*8388607, -8388608,
\* 8388607), mode 32 clip(x*2147483647, INT32_MIN, INT32_MAX); an
\* out-of-range sample never wraps or changes sign.
C17_Saturating ==
    (pc = "done" /\ base # <<>> /\ Mode # ModeFloat) =>
        \A i \in 1..Len(base) :
            savedValue(Mode, pcm[i]) \in saturated(Mode, base[i])


\* The events of calls that returned an I/O error.
ioFailure(e) == e.op \in {"seekfail", "readfail", "writefail"}

\* C15: every failed write to the sink, of a header chunk or of a frame's
\* PCM, and every failed seek or read on the source makes the entry point
\* return an error: the failed call is the last call of the run and the run
\* has ended with a failure.
C15_IoFailuresSurface ==
    \A i \in 1..Len(trace) :
        ioFailure(trace[i]) => (i = Len(trace) /\ failed)

\* The same for the error-returning Decode alone.
C15_DecodeSurfaces == api = "Decode" => C15_IoFailuresSurface


finishedCalls ==
    history \o (IF pc = "done" THEN <<finishedCall>> ELSE <<>>)

\* C14: two Decode runs with the same input bytes and the same
\* configuration produce the same output, header and PCM writes alike, and
\* return the same outcome.
C14_Deterministic ==
    \A i, j \in 1..Len(finishedCalls) :
        finishedCalls[i].in = finishedCalls[j].in =>
            /\ finishedCalls[i].wav = finishedCalls[j].wav
            /\ finishedCalls[i].out = finishedCalls[j].out
            /\ finishedCalls[i].result = finishedCalls[j].result


\* The goroutines that hold a slot and have not given it back.
processing == {w \in 1..Len(workers) :
                  workers[w].pc \in {"start", "decoding", "processed"}}

\* C19: at every moment at most p files are being processed, p being the
\* value of -p raised to 1 when it is not positive and capped at the number
\* of input paths, and every file that is decoded is decoded with a decoder
\* made for it, which no other goroutine has.
C19_BoundedParallel ==
    cli.pc \in {"loop", "exited"} =>
        /\ Cardinality(processing)
              <= Min(Max(cli.p, 1), Max(Len(cli.files), 1))
        /\ \A w \in 1..Len(workers) :
              /\ workers[w].pc = "decoding" => workers[w].decoder # 0
              /\ \A v \in 1..Len(workers) :
                    (v # w /\ workers[w].decoder # 0)
                        => workers[v].decoder # workers[w].decoder

\* With -p 1 the first of two files is being decoded with its decoder and
\* main waits for the slot before it starts the second.
C19_Witness ==
    /\ cli.pc = "loop"
    /\ cli.p = 1
    /\ Len(cli.files) = 2
    /\ cli.i = 2
    /\ cli.semaphore = cli.numParallel
    /\ workers[1].pc = "decoding"
    /\ workers[1].decoder # 0
    /\ workers[2].pc = "none"

\* What holds when the driver has exited.
exitedRight ==
    IF Len(cli.files) = 0
    THEN cli.exit = 1 /\ cli.decoders = 0
    ELSE /\ cli.exit = 0
         /\ cli.semaphore = 0
         /\ \A w \in 1..Len(workers) :
               workers[w].pc = "done" /\ workers[w].runs = 1

\* C20: with at least one input path the driver eventually terminates, and
\* only after processFile has run exactly once for every path; a file that
\* fails, is missing or is skipped holds up no later file and gives its
\* slot back.  Without an input path the driver exits with code 1 and
\* processes nothing.
C20_Terminates ==
    /\ <>(cli.pc = "exited")
    /\ [](cli.pc = "exited" => exitedRight)

\* The driver has exited after a corrupt and then a sound file, one at a
\* time.
C20_Witness ==
    /\ cli.pc = "exited"
    /\ cli.exit = 0
    /\ cli.p = 1
    /\ Len(cli.files) = 2
    /\ cli.files[1] = "corrupt"
    /\ cli.files[2] = "ok"
    /\ workers[1].runs = 1
    /\ ~workers[1].success
    /\ workers[2].success


\* ---- C21
\* The calls of newChannelDecoder so far on this Hca value (h.decoder counts
\* them) and the passes that sought the source back to the loop start.
LoopSeeks ==
    SelectSeq(trace, LAMBDA e : e.op = "seek" /\ e.what \in {"loop", "tail"})

\* C21: the channel decoder is created exactly once per Decode, by the
\* successful header parse, and the same instance stays in place for every
\* frame of every pass: h.decoder changes in no step but the successful
\* loadHeader (which makes it the first instance of the call), and from the
\* seek to the data offset until the call returns it is that instance.
C21_DecoderOnce ==
    /\ [][h'.decoder # h.decoder
          => (pc = "load" /\ pc' = "seek"
              /\ h'.decoder = h.decoder + 1)]_vars
    /\ []((pc \in {"seek", "wave", "pass", "blocks"} \/ result = "ok")
          => h.decoder = 1)
    /\ []((pc \in {"mode", "load"} \/ (failed /\ ~parsed)) => h.decoder = 0)

\* A forced loop of two iterations has sought back to the loop start twice
\* and every frame was decoded by the one decoder.
C21_Witness ==
    /\ pc = "done"
    /\ result = "ok"
    /\ Loop = 2
    /\ Len(LoopSeeks) = 2
    /\ Len(Decodes) >= 3
    /\ h.decoder = 1


\* ---- C22
\* What loadHeader leaves in a new Hca value for the source of the call.
fresh == loadHeader(NewDecoder, chunks).h

\* The header parse of the current call returned without error.
pastHeader == pc \in {"seek", "wave", "pass", "blocks"} \/ result = "ok"

\* C22: the result of Decode does not depend on earlier Decode calls on the
\* same Hca value: after the header parse of a source without a loop chunk
\* loopStart and loopEnd are 0 (and a forced loop adds no frame: a finished
\* call wrote blockCount frames), compR09 is what a new Hca value gets for
\* this source, and in the frame loop the gain is the file's rvaVolume times
\* Volume.
C22_NoCarryOver ==
    pastHeader =>
        /\ ~hasLoopChunk => (h.loopStart = 0 /\ h.loopEnd = 0)
        /\ (~hasLoopChunk /\ result = "ok")
               => Frames(PcmWrites) = <<0, 1>>
        /\ h.compR09 = fresh.compR09
        /\ pc \in {"pass", "blocks"}
               => h.rvaVolume = fresh.rvaVolume * h.Volume

\* The gain alone is not carried over: every header parse sets rvaVolume (to
\* the rva chunk's value or to 1.0) before Decode multiplies it by Volume.
C22_GainNotCompounded ==
    (pastHeader /\ pc \in {"pass", "blocks"})
        => h.rvaVolume = fresh.rvaVolume * h.Volume

\* The loop range is carried over.
C22_LoopRangeReset ==
    (pastHeader /\ ~hasLoopChunk) => (h.loopStart = 0 /\ h.loopEnd = 0)

\* compR09 is carried over.
C22_R9Recomputed == pastHeader => h.compR09 = fresh.compR09


\* ---- C23
\* Place of a signature in the documented order vbr, ath, loop, ciph, rva,
\* comm (0: no optional chunk).
optRank(sig) ==
    LET k == Masked(sig)
    IN  IF k = sigVBR THEN 1 ELSE IF k = sigATH THEN 2
        ELSE IF k = sigLOOP THEN 3 ELSE IF k = sigCIPH THEN 4
        ELSE IF k = sigRVA THEN 5 ELSE IF k = sigCOMM THEN 6 ELSE 0

\* The optional chunks of the source, those after the third chunk.
optionals == {i \in 4..Len(chunks) : optRank(chunks[i].sig) # 0}

\* The chunks in documented order: those before which every optional chunk
\* stands in the documented order too.
inOrder == {i \in optionals :
               \A j \in 4..i : \A k \in 4..(j - 1) :
                   optRank(chunks[k].sig) < optRank(chunks[j].sig)}

\* An optional chunk stands after a chunk the documented order has later.
misplaced == inOrder # optionals

\* The chunk of the given rank was read: it is among the chunks in order.
wasRead(r) == \E i \in inOrder : optRank(chunks[i].sig) = r

orderChunk(r) == chunks[CHOOSE i \in inOrder : optRank(chunks[i].sig) = r]

\* C23: the optional chunks are recognised in the order vbr, ath, loop,
\* ciph, rva, comm only: a header with sound mandatory chunks parses without
\* error wherever its optional chunks stand, and when the parse returns, the
\* chunks up to the first misplaced one have been read while the misplaced
\* chunk and every chunk after it have left the default of their kind.
C23_ChunkOrder ==
    /\ pc \notin {"mode", "load"} => parsed
    /\ pc = "seek" =>
        /\ <<h.vbrR01, h.vbrR02>> =
               (IF wasRead(1) THEN <<orderChunk(1).r01, orderChunk(1).r02>>
                ELSE <<0, 0>>)
        /\ h.athType = (IF wasRead(2) THEN orderChunk(2).type
                        ELSE IF chunks[1].version >= 512 THEN 0 ELSE 1)
        /\ h.loopEnd = (IF wasRead(3) THEN orderChunk(3).loopEnd ELSE 0)
        /\ api = "Decode" => h.loopFlg = wasRead(3)
        /\ h.ciphType = (IF wasRead(4) THEN orderChunk(4).type ELSE 0)
        /\ h.rvaVolume = (IF wasRead(5) THEN orderChunk(5).volume ELSE 100)
        /\ <<h.commLen, h.commComment>> =
               (IF wasRead(6) THEN <<orderChunk(6).len, orderChunk(6).text>>
                ELSE <<0, <<>> >>)

\* Decode has parsed a header with ciph, then loop, then comm: the cipher
\* type was read, loop and comm were not.
C23_Witness ==
    /\ pc = "seek"
    /\ api = "Decode"
    /\ parsed
    /\ Len(chunks) = 7
    /\ optRank(chunks[4].sig) = 4
    /\ optRank(chunks[5].sig) = 3
    /\ optRank(chunks[6].sig) = 6
    /\ misplaced
    /\ h.ciphType = chunks[4].type
    /\ ~h.loopFlg
    /\ h.commLen = 0


\* ---- C24
\* The decode of the goroutine has ended with a failure.
decodeFailed == pc = "done" /\ result # "ok"

\* C24: when the background decode started by Decoder fails (mode, header,
\* CRC mismatch, short read), the consumer of the returned reader meets an
\* error: it never meets the normal end of the stream after a failed decode.
C24_FailureReachesConsumer ==
    (pipe.go # "none" /\ decodeFailed) => pipe.reader # "eof"

\* ---- C25
\* C25: Decoder returns an error and starts no goroutine when the reader is
\* no io.ReadSeeker; otherwise the goroutine closes the write end when the
\* decode has ended, with success or with failure, so that a consumer that
\* keeps reading reaches the end of the stream (none is left reading for
\* ever) and the goroutine ends once the consumer has read or closed.
C25_PipeEnds ==
    /\ [](~pipe.seeker =>
            /\ pipe.go = "none"
            /\ pc # "decoder" => ret = "reader is not a ReadSeeker")
    /\ [](pipe.seeker /\ pc # "decoder" => (ret = "pipe" /\ pipe.go # "none"))
    /\ [](pipe.wclosed => (pc = "done" /\ pipe.go = "exited"))
    /\ <>(pipe.seeker =>
            /\ pipe.go = "exited"
            /\ pipe.wclosed
            /\ pipe.reader \in {"eof", "closed"}
            /\ pipe.reader = "eof" => pipe.taken = Len(pipeWrites))

\* A decode that failed in a block has ended, the write end is closed and
\* the consumer, having read the WAVE header, has met the end of the stream.
C25_Witness ==
    /\ pipe.go = "exited"
    /\ pipe.wclosed
    /\ decodeFailed
    /\ parsed
    /\ pipe.reader = "eof"
    /\ pipe.taken = Len(pipeWrites)
    /\ pipe.taken >= 2

\* ---- C26
\* The parameter bytes b[0..5] of the dec chunk the header carries.
decBuf == chunks[3].buf

\* The uint32 pair p is the integer n.
exactly(p, n) == n >= 0 /\ p = u32(n)

\* r1, r2, r4, r5, r6 and r8 after a dec chunk that passed validation.
C26_PlainFields ==
    parsed =>
        /\ h.compR01 = decBuf[1]
        /\ h.compR02 = decBuf[2]
        /\ h.compR04 = decBuf[5] \div 16
        /\ h.compR05 = decBuf[3] + 1
        /\ h.compR06 = (IF decBuf[6] > 0 THEN decBuf[4] + 1 ELSE decBuf[3] + 1)
        /\ h.compR08 = 0

\* r3 is the low nibble of b[4].
C26_R3Nibble == parsed => h.compR03 = decBuf[5] % 16

\* r7 is the exact difference r5 - r6.
C26_R7Exact == parsed => exactly(h.compR07, h.compR05 - h.compR06)

\* What decHeaderRead leaves: a zero nibble gives r3 = 1, and a negative
\* difference d gives r7 = 2^32 + d.
C26_R3R7OfTheCode ==
    parsed =>
        /\ h.compR03 = (IF decBuf[5] % 16 = 0 THEN 1 ELSE decBuf[5] % 16)
        /\ LET d == h.compR05 - h.compR06
           IN  h.compR07 = (IF d >= 0 THEN <<0, d>> ELSE <<65535, 65536 + d>>)

\* C26: parsing a dec chunk with parameter bytes b[0..5] sets r1 = b[0],
\* r2 = b[1], r3 = b[4] & 0xF, r4 = b[4] >> 4, r5 = b[2] + 1, r6 = b[3] + 1
\* if b[5] > 0 else b[2] + 1, r7 = r5 - r6 (the exact difference, no wrapped
\* unsigned value) and r8 = 0, for all bytes that pass validation.
C26_DecFields ==
    parsed =>
        /\ h.compR01 = decBuf[1]
        /\ h.compR02 = decBuf[2]
        /\ h.compR03 = decBuf[5] % 16
        /\ h.compR04 = decBuf[5] \div 16
        /\ h.compR05 = decBuf[3] + 1
        /\ h.compR06 = (IF decBuf[6] > 0 THEN decBuf[4] + 1 ELSE decBuf[3] + 1)
        /\ exactly(h.compR07, h.compR05 - h.compR06)
        /\ h.compR08 = 0

\* ---- C27
\* The header was read to its end (the step after LoadHeader is taken or
\* the call has returned).
headerDone == pc \notin {"mode", "load"}

\* r1/r2 are anything but 1/15.
otherR1R2 == ~(h.compR01 = 1 /\ h.compR02 = 15)

\* ceil(n / d) of the integers n and d > 0.
ceilDiv(n, d) ==
    IF n >= 0 THEN (n + d - 1) \div d ELSE 0 - ((0 - n) \div d)

\* After a successful parse r3 >= 1.
C27_R3AtLeastOne == parsed => h.compR03 >= 1

\* With r1/r2 other than 1/15, r8 > 0 and r6 + r7 <= r5, r9 is the ceiling
\* of the quotient.
C27_R9InRange ==
    (/\ parsed
     /\ otherR1R2
     /\ h.compR08 > 0
     /\ exactly(h.compR07, chunks[3].buf[7])
     /\ h.compR06 + chunks[3].buf[7] <= h.compR05)
    => exactly(h.compR09,
               ceilDiv(h.compR05 - (h.compR06 + chunks[3].buf[7]), h.compR08))

\* Decode accepts a header with r1/r2 other than 1/15.
C27_AcceptedByDecode == (api = "Decode" /\ headerDone) => parsed

\* C27: after every successful header parse r3 >= 1, and if not (r1 = 1 and
\* r2 = 15) then r9 = ceil((r5 - (r6 + r7)) / r8) (stated where r8 > 0); a
\* header with other r1/r2 values is accepted, not rejected.
C27_Finalize ==
    /\ headerDone => parsed
    /\ parsed => h.compR03 >= 1
    /\ (parsed /\ otherR1R2 /\ h.compR08 > 0) =>
            exactly(h.compR09,
                    ceilDiv(h.compR05 - (h.compR06 + chunks[3].buf[7]),
                            h.compR08))

\* ---- C28
\* The WAVE header was put on the sink (its last chunk header, data, is in
\* the trace).
headerWritten == \E i \in 1..Len(trace) : trace[i].what = "data"

\* The writes of the note chunk.
noteWrites == {i \in 1..Len(trace) : trace[i].what = "note"}

\* The note chunk is written exactly when the comment is not empty.
C28_NoteIff == headerWritten => (noteWrites # {} <=> h.commLen > 0)

\* Its size field is 4 + commLen + 1 rounded up to a multiple of 4.
C28_NoteSizeField ==
    (headerWritten /\ noteWrites # {}) =>
        /\ wav.noteSize % 4 = 0
        /\ wav.noteSize >= 4 + h.commLen + 1
        /\ wav.noteSize < 4 + h.commLen + 1 + 4

\* C28: the note chunk is written if and only if the comment length is > 0;
\* its size field is 4 + commLen + 1 rounded up to a multiple of 4, and the
\* bytes written for the chunk after its 8-byte chunk header (name field,
\* comment, zero terminator, padding) number exactly that size.
C28_NoteChunk ==
    headerWritten =>
        /\ noteWrites # {} <=> h.commLen > 0
        /\ \A i \in noteWrites :
              /\ wav.noteSize % 4 = 0
              /\ wav.noteSize >= 4 + h.commLen + 1
              /\ wav.noteSize < 4 + h.commLen + 1 + 4
              /\ trace[i].n - 8 = wav.noteSize

\* ---- C29
\* buildWaveHeader has returned a header with the smpl chunk switched on.
smplBuilt == pc = "built" /\ wav.SmplOk

\* samplePeriod and loopPlayCount of the smpl chunk, in both forms.
C29_PeriodAndCount ==
    smplBuilt =>
        /\ wav.samplePeriod = 1000000000 \div h.samplingRate
        /\ wav.loopPlayCount = (IF h.loopR01 = 128 THEN 0 ELSE h.loopR01)

\* The loop points buildWaveHeader of part_001 gives are in samples.
C29_SamplesInDecode ==
    (smplBuilt /\ api = "Decode") =>
        /\ wav.smplLoopStart = h.loopStart * 1024
        /\ wav.smplLoopEnd = h.loopEnd * 1024

foldStep(c, byte) ==
    BitXor((c * 256) % 65536, crcTable[BitXor(c \div 256, byte) + 1])

\* The left fold of foldStep over the bytes s from the sum c.
RECURSIVE foldLeft(_, _)
foldLeft(s, c) ==
    IF s = <<>> THEN c ELSE foldLeft(Tail(s), foldStep(c, Head(s)))

\* C30: checkSum folds the bytes left to right with crc = (crc << 8) ^
\* table[(crc >> 8) ^ byte] in 16-bit arithmetic, so checkSum(a ++ b, s) =
\* checkSum(b, checkSum(a, s)) and checkSum of the empty sequence is the
\* seed; for every payload p, p followed by the big-endian 16-bit value
\* checkSum(p, 0) is a frame whose checkSum with seed 0 is 0, and that is
\* exactly when decode accepts the frame's checksum.
C30_CheckSumAlgebra ==
    /\ crc.pc = "summed" =>
          /\ crc.whole = foldLeft(crc.a \o crc.b, crc.seed)
          /\ crc.whole \in 0..65535
          /\ crc.whole = crc.second
          /\ crc.empty = crc.seed
    /\ crc.pc = "sealed" =>
          /\ crc.trailer = crc.payloadSum => crc.frameSum = 0
          /\ crc.frameSum = 0 <=> crc.err # "block checksum mismatch"
          /\ crc.frameSum = 0 => crc.trailer = crc.payloadSum

\* A payload of two pieces with a seed that is not zero was summed, and the
\* frame made of it with the right trailer was accepted.
C30_Witness ==
    /\ crc.pc = "sealed"
    /\ crc.a # <<>>
    /\ crc.b # <<>>
    /\ crc.seed # 0
    /\ crc.payloadSum # 0
    /\ crc.trailer = crc.payloadSum
    /\ crc.frameSum = 0
    /\ crc.err # "block checksum mismatch"

====
